---- MODULE Spec2Model ----
(***************************************************************************)
(* Reservation store of node-practical: orders (reservation groups), order *)
(* items (reservations), the conflict finder, the two status resolvers,    *)
(* the escalation helpers and the controllers that drive them.  Every      *)
(* controller is one atomic action; its HTTP response is kept in `last`.   *)
(***************************************************************************)
EXTENDS Integers, FiniteSets, Sequences, TLC

VARIABLES
    orders,     \* the Order collection: a sequence, order_id = index
    items,      \* the OrderItem collection: a set of documents
    last,       \* the response of the last request
    requests,   \* the number of requests served
    inflight    \* createOrderItem requests between their check and save

vars == <<orders, items, last, requests, inflight>>

(***************************************************************************)
(* Bounds of the model.                                                    *)
(***************************************************************************)
NumOrders == 3       \* orders the requests of Spec can create
MaxTime == 1         \* latest instant of a request of Spec
MaxRequests == 6     \* requests served in a behaviour of Spec
StoreGroups == 4     \* orders of a seeded store (SpecResolver, SpecLadder)
StoreMaxTime == 2    \* latest instant of a seeded store
NumClients == 2      \* clients whose createOrderItem requests interleave
QueueRequests == 10  \* requests served in a behaviour of SpecQueue

OrderIds == 1..NumOrders
InvIds == {"invA", "invB"}
Times == 0..MaxTime
\* well-formed intervals <<pickup, return>>, pickup <= return
Intervals == {iv \in Times \X Times : iv[1] <= iv[2]}

(***************************************************************************)
(* constants/status.js                                                     *)
(***************************************************************************)
ORDER_HOLD == "hold"
ORDER_WORKING == "working"
ORDER_CANCELLED == "cancelled"
ORDER_CONFIRM == "confirm"

ON_HOLD_REQUEST == "on-hold-request"
ON_HOLD == "on-hold"
SECOND_HOLD_REQUEST == "2nd-hold-request"
SECOND_HOLD == "2nd-hold"
THIRD_HOLD_REQUEST == "3rd-hold-request"
THIRD_HOLD == "3rd-hold"
UNAVAILABLE == "unavailable"
UNAVAILABLE_UNTIL == "unavailable-until"
AVAILABLE == "available"
CONFIRMED == "confirmed"
CANCELLED == "cancelled"
STATUS_IN == "in"

ORDER_ITEM_STATUS ==
    {ON_HOLD_REQUEST, ON_HOLD, SECOND_HOLD_REQUEST, SECOND_HOLD,
     THIRD_HOLD_REQUEST, THIRD_HOLD, UNAVAILABLE, UNAVAILABLE_UNTIL,
     AVAILABLE, CONFIRMED, CANCELLED, "clean", "loss", "damage", "out",
     STATUS_IN}

(***************************************************************************)
(* Documents.  A Date field that is null/unset is the empty set, a set     *)
(* Date is the singleton of its instant.                                   *)
(***************************************************************************)
NoDate == {}
DateAt(t) == {t}

\* order.schema.js: a new Order document with the schema defaults
NewOrder(id, pickup, ret) ==
    [order_id |-> id,
     order_pickup_at |-> pickup,
     order_return_at |-> ret,
     order_status |-> ORDER_WORKING,
     order_request_hold |-> FALSE]

\* orderItem.schema.js: a new OrderItem document with the schema defaults
NewOrderItem(id, orderId, inventoryId, pickup, ret, status, until) ==
    [oi_id |-> id,
     oi_order_fk_order_id |-> orderId,
     oi_inventory_fk_inventory_id |-> inventoryId,
     oi_status |-> status,
     oi_unavailable_until |-> until,
     oi_pickup_at |-> pickup,
     oi_return_at |-> ret,
     oi_request_hold |-> FALSE,
     oi_deleted |-> FALSE]

\* Order.findOne({ order_id }) finds a document
OrderExists(id) == id \in DOMAIN orders

\* OrderItemsOf counting the deleted items too
OrderItemsOfWithDeleted(db, orderId) ==
    {r \in db : r.oi_order_fk_order_id = orderId}

\* OrderItem.find({ oi_order_fk_order_id: orderId, oi_deleted: false })
\* on the collection db
OrderItemsOf(db, orderId) ==
    {r \in db : r.oi_order_fk_order_id = orderId /\ ~r.oi_deleted}

(***************************************************************************)
(* helper/orderItem.js.  Every helper reads the OrderItem collection it is *)
(* given (db), so that a controller can chain its reads and writes.        *)
(***************************************************************************)
\* A filter value of `undefined` (getStatus called without inventoryId):
\* the driver either drops the key (every inventory matches) or sends null
\* (no document of the model has a null inventory).
AnyInventory == "undefined:dropped"
NullInventory == "undefined:null"
UndefinedInventory == {AnyInventory, NullInventory}

\* the oi_inventory_fk_inventory_id clause of the conflict query
InventoryFilter(r, inventoryId) ==
    CASE inventoryId = AnyInventory -> TRUE
      [] inventoryId = NullInventory -> FALSE
      [] OTHER -> r.oi_inventory_fk_inventory_id = inventoryId

\* DateFilter with the bounds of the first two cases exclusive
DateFilterExclusive(r, pickupDate, returnDate) ==
    \/ (r.oi_pickup_at < returnDate /\ r.oi_pickup_at > pickupDate)
    \/ (r.oi_return_at < returnDate /\ r.oi_return_at > pickupDate)
    \/ (r.oi_pickup_at <= pickupDate /\ r.oi_return_at >= returnDate)

\* DateFilter without its third case
DateFilterNoEnclosing(r, pickupDate, returnDate) ==
    \/ (r.oi_pickup_at <= returnDate /\ r.oi_pickup_at >= pickupDate)
    \/ (r.oi_return_at <= returnDate /\ r.oi_return_at >= pickupDate)

\* the $or clause of the conflict query: the three overlap cases
DateFilter(r, pickupDate, returnDate) ==
    \/ (r.oi_pickup_at <= returnDate /\ r.oi_pickup_at >= pickupDate)
    \/ (r.oi_return_at <= returnDate /\ r.oi_return_at >= pickupDate)
    \/ (r.oi_pickup_at <= pickupDate /\ r.oi_return_at >= returnDate)

\* findConflictingOrderItems without the oi_deleted clause
findConflictingWithDeleted(db, inventoryId, currentOrderId, pickupDate, returnDate) ==
    {r \in db :
        /\ InventoryFilter(r, inventoryId)
        /\ r.oi_order_fk_order_id # currentOrderId
        /\ DateFilter(r, pickupDate, returnDate)}

findConflictingOrderItems(db, inventoryId, currentOrderId, pickupDate, returnDate) ==
    {r \in db :
        /\ InventoryFilter(r, inventoryId)
        /\ r.oi_order_fk_order_id # currentOrderId
        /\ r.oi_deleted = FALSE
        /\ DateFilter(r, pickupDate, returnDate)}

holdStatuses ==
    {ON_HOLD_REQUEST, ON_HOLD, SECOND_HOLD_REQUEST, SECOND_HOLD,
     THIRD_HOLD_REQUEST, THIRD_HOLD}

validSecondHoldStatuses ==
    {ON_HOLD, ON_HOLD_REQUEST, SECOND_HOLD, SECOND_HOLD_REQUEST}

\* HoldLevel with "some" for "every" in the third-request test
HoldLevelSomeValid(conflictingHoldItems) ==
    LET n == Cardinality(conflictingHoldItems) IN
    IF n >= 3 THEN UNAVAILABLE
    ELSE IF n = 0 THEN ON_HOLD_REQUEST
    ELSE IF n = 1 /\ \E c \in conflictingHoldItems :
                        c.oi_status = ON_HOLD \/ c.oi_status = ON_HOLD_REQUEST
         THEN SECOND_HOLD_REQUEST
    ELSE IF n = 2 /\ \E c \in conflictingHoldItems :
                        c.oi_status \in validSecondHoldStatuses
         THEN THIRD_HOLD_REQUEST
    ELSE ON_HOLD_REQUEST

\* HoldLevel with the exhaustion test off by one (more than three)
HoldLevelOffByOne(conflictingHoldItems) ==
    LET n == Cardinality(conflictingHoldItems) IN
    IF n > 3 THEN UNAVAILABLE
    ELSE IF n = 0 THEN ON_HOLD_REQUEST
    ELSE IF n = 1 /\ \E c \in conflictingHoldItems :
                        c.oi_status = ON_HOLD \/ c.oi_status = ON_HOLD_REQUEST
         THEN SECOND_HOLD_REQUEST
    ELSE IF n = 2 /\ \A c \in conflictingHoldItems :
                        c.oi_status \in validSecondHoldStatuses
         THEN THIRD_HOLD_REQUEST
    ELSE ON_HOLD_REQUEST

\* calculateOrderItemStatus lines 96-161: the tier ladder, given the
\* conflicts that are holds
HoldLevel(conflictingHoldItems) ==
    LET n == Cardinality(conflictingHoldItems) IN
    IF n >= 3 THEN UNAVAILABLE
    ELSE IF n = 0 THEN ON_HOLD_REQUEST
    ELSE IF n = 1 /\ \E c \in conflictingHoldItems :
                        c.oi_status = ON_HOLD \/ c.oi_status = ON_HOLD_REQUEST
         THEN SECOND_HOLD_REQUEST
    ELSE IF n = 2 /\ \A c \in conflictingHoldItems :
                        c.oi_status \in validSecondHoldStatuses
         THEN THIRD_HOLD_REQUEST
    ELSE ON_HOLD_REQUEST

\* ConfirmedBlock reading the confirmed item's pickup for its return
ConfirmedBlockPickup(confirmedItems) ==
    {[status |-> UNAVAILABLE_UNTIL,
      unavailable_until |-> DateAt(c.oi_pickup_at)] : c \in confirmedItems}

\* calculateOrderItemStatus lines 85-94: conflictingItems.find takes the
\* first confirmed document in the store's order, which the query leaves
\* open: every confirmed conflict can be the one found.
ConfirmedBlock(confirmedItems) ==
    {[status |-> UNAVAILABLE_UNTIL,
      unavailable_until |-> DateAt(c.oi_return_at)] : c \in confirmedItems}

\* calculateOrderItemStatus whose finder does not leave out the order's own
\* items
calculateOrderItemStatusOwnItems(db, orderItem, order) ==
    LET conflictingItems ==
            findConflictingOrderItems(db,
                                      orderItem.oi_inventory_fk_inventory_id,
                                      0,
                                      order.order_pickup_at,
                                      order.order_return_at)
        confirmedItems == {c \in conflictingItems : c.oi_status = CONFIRMED}
        conflictingHoldItems ==
            {c \in conflictingItems : c.oi_status \in holdStatuses}
    IN  IF confirmedItems # {}
        THEN ConfirmedBlock(confirmedItems)
        ELSE {[status |-> HoldLevel(conflictingHoldItems),
               unavailable_until |-> NoDate]}

\* calculateOrderItemStatus(orderItem, order): the set of results the call
\* can return
calculateOrderItemStatus(db, orderItem, order) ==
    LET conflictingItems ==
            findConflictingOrderItems(db,
                                      orderItem.oi_inventory_fk_inventory_id,
                                      order.order_id,
                                      order.order_pickup_at,
                                      order.order_return_at)
        confirmedItems == {c \in conflictingItems : c.oi_status = CONFIRMED}
        conflictingHoldItems ==
            {c \in conflictingItems : c.oi_status \in holdStatuses}
    IN  IF confirmedItems # {}
        THEN ConfirmedBlock(confirmedItems)
        ELSE {[status |-> HoldLevel(conflictingHoldItems),
               unavailable_until |-> NoDate]}

\* getStatus counting a hold request as a hold of its level
getStatusWithRequests(db, order, inventoryId) ==
    LET conflictingItems ==
            findConflictingOrderItems(db, inventoryId,
                                      order.order_id,
                                      order.order_pickup_at,
                                      order.order_return_at)
        confirmedItems == {c \in conflictingItems : c.oi_status = CONFIRMED}
        statuses == {c.oi_status : c \in conflictingItems}
    IN  IF conflictingItems = {}
        THEN {[status |-> AVAILABLE, unavailableUntil |-> NoDate]}
        ELSE IF confirmedItems # {}
        THEN {[status |-> UNAVAILABLE_UNTIL,
               unavailableUntil |-> DateAt(c.oi_return_at)] :
                    c \in confirmedItems}
        ELSE IF /\ statuses \cap {ON_HOLD, ON_HOLD_REQUEST} # {}
                /\ statuses \cap {SECOND_HOLD, SECOND_HOLD_REQUEST} # {}
                /\ statuses \cap {THIRD_HOLD, THIRD_HOLD_REQUEST} # {}
        THEN {[status |-> UNAVAILABLE, unavailableUntil |-> NoDate]}
        ELSE {[status |-> AVAILABLE, unavailableUntil |-> NoDate]}

\* getStatus answering a confirmed conflict with its pickup instant
getStatusPickup(db, order, inventoryId) ==
    LET conflictingItems ==
            findConflictingOrderItems(db, inventoryId,
                                      order.order_id,
                                      order.order_pickup_at,
                                      order.order_return_at)
        confirmedItems == {c \in conflictingItems : c.oi_status = CONFIRMED}
        statuses == {c.oi_status : c \in conflictingItems}
    IN  IF conflictingItems = {}
        THEN {[status |-> AVAILABLE, unavailableUntil |-> NoDate]}
        ELSE IF confirmedItems # {}
        THEN {[status |-> UNAVAILABLE_UNTIL,
               unavailableUntil |-> DateAt(c.oi_pickup_at)] :
                    c \in confirmedItems}
        ELSE IF ON_HOLD \in statuses /\ SECOND_HOLD \in statuses
                /\ THIRD_HOLD \in statuses
        THEN {[status |-> UNAVAILABLE, unavailableUntil |-> NoDate]}
        ELSE {[status |-> AVAILABLE, unavailableUntil |-> NoDate]}

\* getStatus(order, inventoryId): the set of results the call can return
getStatus(db, order, inventoryId) ==
    LET conflictingItems ==
            findConflictingOrderItems(db, inventoryId,
                                      order.order_id,
                                      order.order_pickup_at,
                                      order.order_return_at)
        confirmedItems == {c \in conflictingItems : c.oi_status = CONFIRMED}
        statuses == {c.oi_status : c \in conflictingItems}
    IN  IF conflictingItems = {}
        THEN {[status |-> AVAILABLE, unavailableUntil |-> NoDate]}
        ELSE IF confirmedItems # {}
        THEN {[status |-> UNAVAILABLE_UNTIL,
               unavailableUntil |-> DateAt(c.oi_return_at)] :
                    c \in confirmedItems}
        ELSE IF ON_HOLD \in statuses /\ SECOND_HOLD \in statuses
                /\ THIRD_HOLD \in statuses
        THEN {[status |-> UNAVAILABLE, unavailableUntil |-> NoDate]}
        ELSE {[status |-> AVAILABLE, unavailableUntil |-> NoDate]}

\* HoldUpdate leaving the request-hold flag as it was
HoldUpdateNoFlag(orderItem, res) ==
    [orderItem EXCEPT
        !.oi_status = res.status,
        !.oi_unavailable_until =
            IF res.unavailable_until # NoDate THEN res.unavailable_until ELSE @]

\* updateOrderItemsStatusForHold lines 189-206: one order item saved with
\* the calculated result res
HoldUpdate(orderItem, res) ==
    [orderItem EXCEPT
        !.oi_status = res.status,
        !.oi_request_hold = TRUE,
        !.oi_unavailable_until =
            IF res.unavailable_until # NoDate THEN res.unavailable_until ELSE @]

\* updateOrderItemsStatusForHold(orderId, order): the collections the call
\* can leave (the empty set when it throws "No order items found").  The
\* calculations read other orders' documents only, so the order in which
\* the promises run does not matter.
updateOrderItemsStatusForHold(db, orderId, order) ==
    LET orderItems == OrderItemsOf(db, orderId)
        results == UNION {calculateOrderItemStatus(db, r, order) : r \in orderItems}
        choices == {f \in [orderItems -> results] :
                       \A r \in orderItems :
                           f[r] \in calculateOrderItemStatus(db, r, order)}
    IN  IF orderItems = {} THEN {}
        ELSE {{IF r \in orderItems THEN HoldUpdate(r, f[r]) ELSE r : r \in db} :
                 f \in choices}

\* PromotedStatus promoting a granted hold to a request
PromotedStatusToRequest(status) ==
    CASE status = SECOND_HOLD_REQUEST -> ON_HOLD_REQUEST
      [] status = SECOND_HOLD -> ON_HOLD_REQUEST
      [] status = THIRD_HOLD_REQUEST -> SECOND_HOLD_REQUEST
      [] status = THIRD_HOLD -> SECOND_HOLD_REQUEST
      [] status \in {ON_HOLD, ON_HOLD_REQUEST} -> ""
      [] OTHER -> IF status \notin {AVAILABLE, CONFIRMED, UNAVAILABLE,
                                     UNAVAILABLE_UNTIL}
                  THEN AVAILABLE ELSE ""

\* PromotedStatus without the default branch's reset to available
PromotedStatusNoReset(status) ==
    CASE status = SECOND_HOLD_REQUEST -> ON_HOLD_REQUEST
      [] status = SECOND_HOLD -> ON_HOLD
      [] status = THIRD_HOLD_REQUEST -> SECOND_HOLD_REQUEST
      [] status = THIRD_HOLD -> SECOND_HOLD
      [] OTHER -> ""

\* promoteConflictingHolds lines 377-405: the status the switch assigns,
\* "" for none (newStatus stays null)
PromotedStatus(status) ==
    CASE status = SECOND_HOLD_REQUEST -> ON_HOLD_REQUEST
      [] status = SECOND_HOLD -> ON_HOLD
      [] status = THIRD_HOLD_REQUEST -> SECOND_HOLD_REQUEST
      [] status = THIRD_HOLD -> SECOND_HOLD
      [] status \in {ON_HOLD, ON_HOLD_REQUEST} -> ""
      [] OTHER -> IF status \notin {AVAILABLE, CONFIRMED, UNAVAILABLE,
                                     UNAVAILABLE_UNTIL}
                  THEN AVAILABLE ELSE ""

\* promoteConflictingHolds: the documents the loop writes
PromotedItems(db, deletedItem, order) ==
    {c \in findConflictingOrderItems(db,
                                     deletedItem.oi_inventory_fk_inventory_id,
                                     order.order_id,
                                     order.order_pickup_at,
                                     order.order_return_at) :
        PromotedStatus(c.oi_status) # "" /\ PromotedStatus(c.oi_status) # c.oi_status}

\* promoteConflictingHolds(deletedItem, order): the collection it leaves
promoteConflictingHolds(db, deletedItem, order) ==
    {IF r \in PromotedItems(db, deletedItem, order)
        THEN [r EXCEPT !.oi_status = PromotedStatus(r.oi_status)]
        ELSE r : r \in db}

\* otherConfirmedConflicts testing the overlap against the deleted order's
\* interval
otherConfirmedConflictsOfDeleted(db, item, itemOrder, order) ==
    {c \in db :
        /\ c.oi_inventory_fk_inventory_id = item.oi_inventory_fk_inventory_id
        /\ c.oi_order_fk_order_id # order.order_id
        /\ c.oi_deleted = FALSE
        /\ c.oi_status = CONFIRMED
        /\ c.oi_pickup_at <= order.order_return_at
        /\ c.oi_return_at >= order.order_pickup_at}

\* updateUnavailableItemsAfterConfirmedRemoval lines 460-471: the
\* otherConfirmedConflicts query for a blocked item.  The filter object
\* spells $ne twice; the later key (the deleted order) is the one kept.
otherConfirmedConflicts(db, item, itemOrder, order) ==
    {c \in db :
        /\ c.oi_inventory_fk_inventory_id = item.oi_inventory_fk_inventory_id
        /\ c.oi_order_fk_order_id # order.order_id
        /\ c.oi_deleted = FALSE
        /\ c.oi_status = CONFIRMED
        /\ c.oi_pickup_at <= itemOrder.order_return_at
        /\ c.oi_return_at >= itemOrder.order_pickup_at}

\* updateUnavailableItemsAfterConfirmedRemoval: the documents the loop
\* writes.  The loop's writes touch no confirmed document, so its queries
\* read the same answers in any order.
ReleasedItems(db, deletedItem, order) ==
    {c \in findConflictingOrderItems(db,
                                     deletedItem.oi_inventory_fk_inventory_id,
                                     order.order_id,
                                     order.order_pickup_at,
                                     order.order_return_at) :
        /\ c.oi_status = UNAVAILABLE \/ c.oi_status = UNAVAILABLE_UNTIL
        /\ OrderExists(c.oi_order_fk_order_id)
        /\ otherConfirmedConflicts(db, c, orders[c.oi_order_fk_order_id],
                                   order) = {}}

updateUnavailableItemsAfterConfirmedRemoval(db, deletedItem, order) ==
    {IF r \in ReleasedItems(db, deletedItem, order)
        THEN [r EXCEPT !.oi_status = AVAILABLE, !.oi_unavailable_until = NoDate]
        ELSE r : r \in db}

\* confirmedConflicts looking at the item's stored interval
confirmedConflictsStoredDates(db, item, orderId, newPickupDate, newReturnDate) ==
    {c \in findConflictingOrderItems(db,
                item.oi_inventory_fk_inventory_id, orderId,
                item.oi_pickup_at, item.oi_return_at) :
        c.oi_status = CONFIRMED}

\* calculateStatusesForDateUpdate lines 304-314: the confirmed conflicts
\* of item on the new dates
confirmedConflicts(db, item, orderId, newPickupDate, newReturnDate) ==
    {c \in findConflictingOrderItems(db,
                item.oi_inventory_fk_inventory_id, orderId,
                newPickupDate, newReturnDate) :
        c.oi_status = CONFIRMED}

\* calculateStatusesForDateUpdate: the entries of itemsWithStatuses; an
\* entry with error = TRUE is one with a confirmed conflict
calculateStatusesForDateUpdate(db, orderId, newPickupDate, newReturnDate) ==
    LET tempOrder == [order_id |-> orderId,
                      order_pickup_at |-> newPickupDate,
                      order_return_at |-> newReturnDate]
        Confirmed(item) ==
            confirmedConflicts(db, item, orderId, newPickupDate, newReturnDate)
        Entries(item) ==
            IF Confirmed(item) # {}
            THEN {[itemId |-> item.oi_id, newStatus |-> "",
                   unavailableUntil |-> DateAt(c.oi_return_at),
                   error |-> TRUE] : c \in Confirmed(item)}
            ELSE {[itemId |-> item.oi_id, newStatus |-> res.status,
                   unavailableUntil |-> res.unavailable_until,
                   error |-> FALSE] :
                      res \in calculateOrderItemStatus(db, item, tempOrder)}
        orderItems == OrderItemsOf(db, orderId)
    IN  {{f[r] : r \in orderItems} :
            f \in {g \in [orderItems -> UNION {Entries(r) : r \in orderItems}] :
                     \A r \in orderItems : g[r] \in Entries(r)}}

(***************************************************************************)
(* The response of the last request: the request (op, order_id, inventory, *)
(* args), the HTTP status (code) and the fields of the body the handlers   *)
(* fill in; found and unavailable_until carry a helper's return value.     *)
(***************************************************************************)
Response(op, orderId, inventoryId, code) ==
    [op |-> op, order_id |-> orderId, inventory |-> inventoryId,
     code |-> code, action |-> "", count |-> 0, status |-> "",
     unavailable_until |-> NoDate, args |-> << >>, found |-> {},
     itemStatusChanges |-> {}]

(***************************************************************************)
(* controllers                                                             *)
(***************************************************************************)
\* order.controller.js createOrder: ids are fresh, taken in order
createOrder(pickup, ret) ==
    /\ Len(orders) < NumOrders
    /\ orders' = Append(orders, NewOrder(Len(orders) + 1, pickup, ret))
    /\ last' = Response("createOrder", Len(orders) + 1, "", 201)
    /\ UNCHANGED items

\* the oi_id of the n-th document saved for an (order, inventory) pair
NextItemId(orderId, inventoryId) ==
    <<orderId, inventoryId,
      1 + Cardinality({r \in items :
                         /\ r.oi_order_fk_order_id = orderId
                         /\ r.oi_inventory_fk_inventory_id = inventoryId})>>

\* createOrderItem after the existingOrderItem check (lines 66-86)
saveNewOrderItem(inventoryId, orderId) ==
    IF ~OrderExists(orderId)
    THEN /\ last' = Response("createOrderItem", orderId, inventoryId, 404)
         /\ UNCHANGED <<orders, items>>
    ELSE LET order == orders[orderId] IN
         \E undef \in UndefinedInventory :
         \E st \in getStatus(items, order, undef) :
            /\ items' = items \cup
                 {NewOrderItem(NextItemId(orderId, inventoryId), orderId,
                               inventoryId, order.order_pickup_at,
                               order.order_return_at, st.status,
                               st.unavailableUntil)}
            /\ orders' = [orders EXCEPT ![orderId].order_request_hold = FALSE]
            /\ last' = [Response("createOrderItem", orderId, inventoryId, 201)
                            EXCEPT !.status = st.status,
                                   !.unavailable_until = st.unavailableUntil]

\* createOrderItem lines 55-58: OrderItem.findOne for the pair
existingOrderItem(inventoryId, orderId) ==
    \E r \in items : /\ r.oi_inventory_fk_inventory_id = inventoryId
                     /\ r.oi_order_fk_order_id = orderId

\* the whole handler, served without another request in between
createOrderItem(inventoryId, orderId) ==
    IF existingOrderItem(inventoryId, orderId)
    THEN /\ last' = Response("createOrderItem", orderId, inventoryId, 400)
         /\ UNCHANGED <<orders, items>>
    ELSE saveNewOrderItem(inventoryId, orderId)

\* the handler up to the answer of OrderItem.findOne (line 55): refused,
\* or in flight
createOrderItemCheck(client, inventoryId, orderId) ==
    /\ \A q \in inflight : q.client # client
    /\ IF existingOrderItem(inventoryId, orderId)
       THEN /\ last' = Response("createOrderItem", orderId, inventoryId, 400)
            /\ UNCHANGED <<orders, items, inflight>>
       ELSE /\ inflight' = inflight \cup
                   {[client |-> client, inventory |-> inventoryId,
                     order |-> orderId]}
            /\ UNCHANGED <<orders, items, last>>
    /\ UNCHANGED requests

\* the rest of the handler of a request in flight
createOrderItemSave(client) ==
    \E q \in inflight :
        /\ q.client = client
        /\ saveNewOrderItem(q.inventory, q.order)
        /\ inflight' = inflight \ {q}
        /\ UNCHANGED requests

requestHold(order_id) ==
    IF ~OrderExists(order_id)
    THEN /\ last' = Response("requestHold", order_id, "", 404)
         /\ UNCHANGED <<orders, items>>
    ELSE LET order == orders[order_id]
             outcomes == updateOrderItemsStatusForHold(items, order_id, order)
         IN  IF outcomes = {}
             THEN /\ last' = Response("requestHold", order_id, "", 500)
                  /\ UNCHANGED <<orders, items>>
             ELSE /\ items' \in outcomes
                  /\ orders' = [orders EXCEPT
                                   ![order_id].order_request_hold = TRUE,
                                   ![order_id].order_status = ORDER_HOLD]
                  /\ last' = Response("requestHold", order_id, "", 200)

\* confirmOrder lines 298-304
excludedStatuses ==
    {CANCELLED, AVAILABLE, STATUS_IN, UNAVAILABLE, UNAVAILABLE_UNTIL}

\* ConfirmSweep without the oi_request_hold test
ConfirmSweepNoFlag(db, orderItems, order) ==
    UNION {{c \in findConflictingOrderItems(db,
                        item.oi_inventory_fk_inventory_id,
                        order.order_id,
                        order.order_pickup_at,
                        order.order_return_at) :
               c.oi_status \notin excludedStatuses} : item \in orderItems}

\* confirmOrder lines 306-319: the conflicts the sweep pushes to
\* unavailable-until.  A document the sweep has written is unavailable-until
\* and so excluded from then on: the loop writes each at most once.
ConfirmSweep(db, orderItems, order) ==
    UNION {{c \in findConflictingOrderItems(db,
                        item.oi_inventory_fk_inventory_id,
                        order.order_id,
                        order.order_pickup_at,
                        order.order_return_at) :
               /\ c.oi_request_hold = TRUE
               /\ c.oi_status \notin excludedStatuses} : item \in orderItems}

\* invalidItems letting a tier-1 hold request through as well
invalidItemsRequestPasses(orderItems) ==
    {r \in orderItems :
        /\ r.oi_status # AVAILABLE /\ r.oi_status # ON_HOLD
        /\ r.oi_status # ON_HOLD_REQUEST}

\* confirmOrder lines 264-266
invalidItems(orderItems) ==
    {r \in orderItems : r.oi_status # AVAILABLE /\ r.oi_status # ON_HOLD}

confirmOrder(order_id) ==
    IF ~OrderExists(order_id)
    THEN /\ last' = Response("confirmOrder", order_id, "", 404)
         /\ UNCHANGED <<orders, items>>
    ELSE LET order == orders[order_id]
             orderItems == OrderItemsOf(items, order_id)
         IN  IF \/ order.order_status = ORDER_CANCELLED
                \/ order.order_status = ORDER_CONFIRM
                \/ orderItems = {}
                \/ invalidItems(orderItems) # {}
             THEN /\ last' = Response("confirmOrder", order_id, "", 400)
                  /\ UNCHANGED <<orders, items>>
             ELSE LET confirmed ==
                          {IF r \in orderItems
                              THEN [r EXCEPT !.oi_status = CONFIRMED]
                              ELSE r : r \in items}
                      swept == ConfirmSweep(confirmed, orderItems, order)
                  IN  /\ orders' = [orders EXCEPT
                                       ![order_id].order_status = ORDER_CONFIRM]
                      /\ items' =
                            {IF r \in swept
                                THEN [r EXCEPT
                                        !.oi_status = UNAVAILABLE_UNTIL,
                                        !.oi_unavailable_until =
                                            DateAt(order.order_return_at)]
                                ELSE r : r \in confirmed}
                      /\ last' = [Response("confirmOrder", order_id, "", 200)
                                    EXCEPT !.count = Cardinality(swept)]

\* the handler up to its validation (lines 227-278): refused, or in flight
\* with the order and the items it has read
confirmOrderValidate(client, order_id) ==
    /\ \A q \in inflight : q.client # client
    /\ UNCHANGED <<orders, items, requests>>
    /\ IF ~OrderExists(order_id)
       THEN /\ last' = Response("confirmOrder", order_id, "", 404)
            /\ UNCHANGED inflight
       ELSE LET order == orders[order_id]
                orderItems == OrderItemsOf(items, order_id)
            IN  IF \/ order.order_status = ORDER_CANCELLED
                   \/ order.order_status = ORDER_CONFIRM
                   \/ orderItems = {}
                   \/ invalidItems(orderItems) # {}
                THEN /\ last' = Response("confirmOrder", order_id, "", 400)
                     /\ UNCHANGED inflight
                ELSE /\ inflight' = inflight \cup
                            {[client |-> client, order |-> order,
                              orderItems |-> orderItems, stage |-> "write"]}
                     /\ UNCHANGED last

\* confirmOrderWrite that validates the stored items once more and writes
\* nothing when one of them is no longer confirmable
confirmOrderWriteRechecked(client) ==
    \E q \in inflight :
        /\ q.client = client
        /\ q.stage = "write"
        /\ IF invalidItems(OrderItemsOf(items, q.order.order_id)) # {}
           THEN UNCHANGED <<orders, items>>
           ELSE /\ orders' = [orders EXCEPT
                                 ![q.order.order_id].order_status = ORDER_CONFIRM]
                /\ items' = {IF r \in OrderItemsOf(items, q.order.order_id)
                                THEN [r EXCEPT !.oi_status = CONFIRMED]
                                ELSE r : r \in items}
        /\ inflight' = (inflight \ {q}) \cup {[q EXCEPT !.stage = "sweep"]}
        /\ UNCHANGED <<last, requests>>

\* lines 280-294 of a request in flight: order.save() and the updateMany
\* that confirms the order's items
confirmOrderWrite(client) ==
    \E q \in inflight :
        /\ q.client = client
        /\ q.stage = "write"
        /\ orders' = [orders EXCEPT
                         ![q.order.order_id].order_status = ORDER_CONFIRM]
        /\ items' = {IF r \in OrderItemsOf(items, q.order.order_id)
                        THEN [r EXCEPT !.oi_status = CONFIRMED]
                        ELSE r : r \in items}
        /\ inflight' = (inflight \ {q}) \cup {[q EXCEPT !.stage = "sweep"]}
        /\ UNCHANGED <<last, requests>>

\* lines 296-357 of a request in flight: the sweep over the items read at
\* validation, and the response
confirmOrderSweep(client) ==
    \E q \in inflight :
        /\ q.client = client
        /\ q.stage = "sweep"
        /\ LET swept == ConfirmSweep(items, q.orderItems, q.order)
           IN  /\ items' = {IF r \in swept
                               THEN [r EXCEPT
                                       !.oi_status = UNAVAILABLE_UNTIL,
                                       !.oi_unavailable_until =
                                           DateAt(q.order.order_return_at)]
                               ELSE r : r \in items}
               /\ last' = [Response("confirmOrder", q.order.order_id, "", 200)
                             EXCEPT !.count = Cardinality(swept)]
        /\ inflight' = inflight \ {q}
        /\ UNCHANGED <<orders, requests>>

\* DeleteFlow promoting holds after a blocked reservation too
DeleteFlowBlockedPromotes(deletedItemStatus) ==
    IF deletedItemStatus \in {UNAVAILABLE, UNAVAILABLE_UNTIL,
                              ON_HOLD, ON_HOLD_REQUEST}
    THEN "promote_holds"
    ELSE IF deletedItemStatus = CONFIRMED
    THEN "update_unavailable_to_available"
    ELSE ""

\* part_001 deleteOrderItem step 5: the flow chosen by the deleted status
DeleteFlow(deletedItemStatus) ==
    IF deletedItemStatus = UNAVAILABLE \/ deletedItemStatus = UNAVAILABLE_UNTIL
    THEN "no_changes_needed"
    ELSE IF deletedItemStatus = ON_HOLD \/ deletedItemStatus = ON_HOLD_REQUEST
    THEN "promote_holds"
    ELSE IF deletedItemStatus = CONFIRMED
    THEN "update_unavailable_to_available"
    ELSE ""

deleteOrderItem(oi_id) ==
    IF ~\E r \in items : r.oi_id = oi_id /\ r.oi_deleted = FALSE
    THEN /\ last' = Response("deleteOrderItem", 0, "", 404)
         /\ UNCHANGED <<orders, items>>
    ELSE \E orderItem \in {r \in items : r.oi_id = oi_id /\ r.oi_deleted = FALSE} :
         IF ~OrderExists(orderItem.oi_order_fk_order_id)
         THEN /\ last' = Response("deleteOrderItem",
                                  orderItem.oi_order_fk_order_id, "", 404)
              /\ UNCHANGED <<orders, items>>
         ELSE LET order == orders[orderItem.oi_order_fk_order_id]
                  deletedItemStatus == orderItem.oi_status
                  deleted == [orderItem EXCEPT !.oi_deleted = TRUE]
                  db1 == (items \ {orderItem}) \cup {deleted}
                  action == DeleteFlow(deletedItemStatus)
                  written ==
                      IF action = "promote_holds"
                      THEN PromotedItems(db1, deleted, order)
                      ELSE IF action = "update_unavailable_to_available"
                      THEN ReleasedItems(db1, deleted, order)
                      ELSE {}
                  db2 ==
                      IF action = "promote_holds"
                      THEN promoteConflictingHolds(db1, deleted, order)
                      ELSE IF action = "update_unavailable_to_available"
                      THEN updateUnavailableItemsAfterConfirmedRemoval(
                               db1, deleted, order)
                      ELSE db1
                  remainingItems == OrderItemsOf(db2, order.order_id)
              IN  /\ items' = db2
                  /\ orders' = IF remainingItems = {}
                               THEN [orders EXCEPT ![order.order_id].order_status
                                                       = ORDER_CANCELLED]
                               ELSE orders
                  /\ last' = [Response("deleteOrderItem", order.order_id,
                                       orderItem.oi_inventory_fk_inventory_id,
                                       200)
                                EXCEPT !.action = action,
                                       !.count = Cardinality(written),
                                       !.status = deletedItemStatus]

\* deleteOrderItemWriteFails with the pass's earlier writes undone
deleteOrderItemWriteFailsUndone(oi_id) ==
    \E orderItem \in {r \in items : r.oi_id = oi_id /\ r.oi_deleted = FALSE} :
        /\ OrderExists(orderItem.oi_order_fk_order_id)
        /\ LET order == orders[orderItem.oi_order_fk_order_id]
               deleted == [orderItem EXCEPT !.oi_deleted = TRUE]
               db1 == (items \ {orderItem}) \cup {deleted}
               action == DeleteFlow(orderItem.oi_status)
               written ==
                   IF action = "promote_holds"
                   THEN PromotedItems(db1, deleted, order)
                   ELSE IF action = "update_unavailable_to_available"
                   THEN ReleasedItems(db1, deleted, order)
                   ELSE {}
           IN  \E done \in (SUBSET written) \ {written} :
                   /\ items' = db1
                   /\ last' = [Response("deleteOrderItem", order.order_id,
                                        orderItem.oi_inventory_fk_inventory_id,
                                        500)
                                 EXCEPT !.action = action,
                                        !.count = Cardinality(done),
                                        !.status = orderItem.oi_status]
        /\ UNCHANGED orders

\* deleteOrderItem when an updateOne of the escalation pass rejects: the
\* loops of promoteConflictingHolds (lines 376-418) and of
\* updateUnavailableItemsAfterConfirmedRemoval (452-485) write one document
\* per iteration, in the order the store returned them; the writes before
\* the failing one (done) are in the store, the helper rethrows and the
\* handler's catch answers 500 (part_001 174-181) before steps 6 and 7.
deleteOrderItemWriteFails(oi_id) ==
    \E orderItem \in {r \in items : r.oi_id = oi_id /\ r.oi_deleted = FALSE} :
        /\ OrderExists(orderItem.oi_order_fk_order_id)
        /\ LET order == orders[orderItem.oi_order_fk_order_id]
               deleted == [orderItem EXCEPT !.oi_deleted = TRUE]
               db1 == (items \ {orderItem}) \cup {deleted}
               action == DeleteFlow(orderItem.oi_status)
               written ==
                   IF action = "promote_holds"
                   THEN PromotedItems(db1, deleted, order)
                   ELSE IF action = "update_unavailable_to_available"
                   THEN ReleasedItems(db1, deleted, order)
                   ELSE {}
           IN  \E done \in (SUBSET written) \ {written} :
                   /\ items' =
                         {IF r \notin done THEN r
                          ELSE IF action = "promote_holds"
                          THEN [r EXCEPT !.oi_status = PromotedStatus(r.oi_status)]
                          ELSE [r EXCEPT !.oi_status = AVAILABLE,
                                         !.oi_unavailable_until = NoDate] :
                             r \in db1}
                   /\ last' = [Response("deleteOrderItem", order.order_id,
                                        orderItem.oi_inventory_fk_inventory_id,
                                        500)
                                 EXCEPT !.action = action,
                                        !.count = Cardinality(done),
                                        !.status = orderItem.oi_status]
        /\ UNCHANGED orders

\* values of req.body.status: "" when the body has none
NoStatus == ""
StatusArgs == {NoStatus, ORDER_HOLD}

\* DateUpdate leaving the status as it was
DateUpdateKeepsStatus(r, entry, newPickupDate, newReturnDate) ==
    [r EXCEPT
        !.oi_pickup_at = newPickupDate,
        !.oi_return_at = newReturnDate,
        !.oi_unavailable_until =
            IF entry.unavailableUntil # NoDate THEN entry.unavailableUntil ELSE @]

\* updateOrder lines 141-158: one member written with its entry
DateUpdate(r, entry, newPickupDate, newReturnDate) ==
    [r EXCEPT
        !.oi_pickup_at = newPickupDate,
        !.oi_return_at = newReturnDate,
        !.oi_status = entry.newStatus,
        !.oi_unavailable_until =
            IF entry.unavailableUntil # NoDate THEN entry.unavailableUntil ELSE @]

\* the response of an updateOrder request whose body carries dates
DateResponse(order_id, newPickupDate, newReturnDate, confirmed, code) ==
    [Response("updateOrder", order_id, "", code)
        EXCEPT !.args = <<newPickupDate, newReturnDate, confirmed>>]

\* requiresConfirmation that never asks
requiresConfirmationNever(confirmed) == FALSE

\* updateOrder line 108: the preview is returned unless the body says
\* confirmed
requiresConfirmation(confirmed) == ~confirmed

\* updateOrder with order_pickup_at and order_return_at in the body
updateOrderDates(order_id, newPickupDate, newReturnDate, status, confirmed) ==
    IF ~OrderExists(order_id)
    THEN /\ last' = DateResponse(order_id, newPickupDate, newReturnDate, confirmed, 404)
         /\ UNCHANGED <<orders, items>>
    ELSE IF orders[order_id].order_status = ORDER_CONFIRM
    THEN /\ last' = DateResponse(order_id, newPickupDate, newReturnDate, confirmed, 400)
         /\ UNCHANGED <<orders, items>>
    ELSE \E itemsWithStatuses \in
                calculateStatusesForDateUpdate(items, order_id,
                                               newPickupDate, newReturnDate) :
         IF \E e \in itemsWithStatuses : e.error
         THEN /\ last' = [DateResponse(order_id, newPickupDate, newReturnDate, confirmed, 409)
                            EXCEPT !.itemStatusChanges =
                                      {e \in itemsWithStatuses : e.error}]
              /\ UNCHANGED <<orders, items>>
         ELSE IF requiresConfirmation(confirmed)
         THEN /\ last' = [DateResponse(order_id, newPickupDate, newReturnDate, confirmed, 200)
                            EXCEPT !.action = "requiresConfirmation",
                                   !.itemStatusChanges = itemsWithStatuses]
              /\ UNCHANGED <<orders, items>>
         ELSE /\ orders' = [orders EXCEPT
                              ![order_id].order_pickup_at = newPickupDate,
                              ![order_id].order_return_at = newReturnDate,
                              ![order_id].order_status =
                                  IF status # NoStatus THEN status ELSE @]
              /\ items' =
                    {IF \E e \in itemsWithStatuses :
                            e.itemId = r.oi_id /\ r.oi_deleted = FALSE
                        THEN DateUpdate(r,
                                CHOOSE e \in itemsWithStatuses : e.itemId = r.oi_id,
                                newPickupDate, newReturnDate)
                        ELSE r : r \in items}
              /\ last' = [DateResponse(order_id, newPickupDate, newReturnDate, confirmed, 200)
                            EXCEPT !.action = "updated",
                                   !.itemStatusChanges = itemsWithStatuses]

\* updateOrder without dates in the body (step 4, status only)
updateOrderStatus(order_id, status) ==
    IF ~OrderExists(order_id)
    THEN /\ last' = Response("updateOrder", order_id, "", 404)
         /\ UNCHANGED <<orders, items>>
    ELSE IF orders[order_id].order_status = ORDER_CONFIRM
    THEN /\ last' = Response("updateOrder", order_id, "", 400)
         /\ UNCHANGED <<orders, items>>
    ELSE LET updated == [orders EXCEPT ![order_id].order_status =
                            IF status # NoStatus THEN status ELSE @]
             outcomes == updateOrderItemsStatusForHold(items, order_id,
                                                       updated[order_id])
         IN  /\ orders' = updated
             /\ IF status # ORDER_HOLD
                THEN /\ items' = items
                     /\ last' = [Response("updateOrder", order_id, "", 200)
                                   EXCEPT !.action = "status"]
                ELSE IF outcomes = {}
                THEN /\ items' = items
                     /\ last' = [Response("updateOrder", order_id, "", 500)
                                   EXCEPT !.action = "status"]
                ELSE /\ items' \in outcomes
                     /\ last' = [Response("updateOrder", order_id, "", 200)
                                   EXCEPT !.action = "status"]

\* the oi_id values a delete request can name
ItemIds == {<<g, i, 1>> : g \in OrderIds, i \in InvIds}

(***************************************************************************)
(* Direct calls of the helpers, as the controllers make them.              *)
(***************************************************************************)
\* findConflictingOrderItems(inventoryId, currentOrderId, pickupDate,
\* returnDate) called on the store; the response carries the ids returned
callFindConflictingOrderItems(inventoryId, currentOrderId, pickupDate, returnDate) ==
    /\ last' = [Response("findConflictingOrderItems", currentOrderId,
                         inventoryId, 200)
                  EXCEPT !.args = <<pickupDate, returnDate>>,
                         !.found = {r.oi_id :
                                      r \in findConflictingOrderItems(items,
                                               inventoryId, currentOrderId,
                                               pickupDate, returnDate)}]
    /\ UNCHANGED <<orders, items>>

\* calculateOrderItemStatus(orderItem, order) called for a stored order
\* item and its order, as updateOrderItemsStatusForHold calls it
callCalculateOrderItemStatus(oi_id) ==
    \E orderItem \in {r \in items : r.oi_id = oi_id /\ r.oi_deleted = FALSE} :
    \E res \in calculateOrderItemStatus(items, orderItem,
                                        orders[orderItem.oi_order_fk_order_id]) :
        /\ last' = [Response("calculateOrderItemStatus",
                             orderItem.oi_order_fk_order_id,
                             orderItem.oi_inventory_fk_inventory_id, 200)
                      EXCEPT !.status = res.status,
                             !.unavailable_until = res.unavailable_until]
        /\ UNCHANGED <<orders, items>>
\* getStatus(order, inventoryId) called for a stored order item's inventory
\* and its order
callGetStatus(oi_id) ==
    \E orderItem \in {r \in items : r.oi_id = oi_id /\ r.oi_deleted = FALSE} :
    \E res \in getStatus(items, orders[orderItem.oi_order_fk_order_id],
                         orderItem.oi_inventory_fk_inventory_id) :
        /\ last' = [Response("getStatus",
                             orderItem.oi_order_fk_order_id,
                             orderItem.oi_inventory_fk_inventory_id, 200)
                      EXCEPT !.status = res.status,
                             !.unavailable_until = res.unavailableUntil]
        /\ UNCHANGED <<orders, items>>


(***************************************************************************)
(* Seeded stores: documents as other requests (and the out-of-repository   *)
(* step that grants a hold) leave them.                                    *)
(***************************************************************************)
StoreTimes == 0..StoreMaxTime
StoreIntervals == {iv \in StoreTimes \X StoreTimes : iv[1] <= iv[2]}
\* the first instant, the last instant, and the whole span
FirstInstant == <<0, 0>>
LastInstant == <<StoreMaxTime, StoreMaxTime>>
WholeSpan == <<0, StoreMaxTime>>
\* from the second instant to the last: disjoint from FirstInstant
LaterSpan == <<1, StoreMaxTime>>

\* a stored order item of order g; an unavailable-until document carries a
\* blocking instant, every other document none
StoredItem(g, inventoryId, iv, status, requestHeld, deleted) ==
    [NewOrderItem(<<g, inventoryId, 1>>, g, inventoryId, iv[1], iv[2], status,
                  IF status = UNAVAILABLE_UNTIL THEN DateAt(StoreMaxTime)
                                                ELSE NoDate)
        EXCEPT !.oi_request_hold = requestHeld, !.oi_deleted = deleted]

\* a stored order
StoredOrder(g, iv, status, requestHeld) ==
    [NewOrder(g, iv[1], iv[2]) EXCEPT !.order_status = status,
                                      !.order_request_hold = requestHeld]

\* the status of an order whose only item has the given status
OrderStatusOf(status, deleted) ==
    IF deleted THEN ORDER_CANCELLED
    ELSE IF status = CONFIRMED THEN ORDER_CONFIRM
    ELSE IF status \in holdStatuses \cup {UNAVAILABLE, UNAVAILABLE_UNTIL}
    THEN ORDER_HOLD
    ELSE ORDER_WORKING

\* a request served on a seeded store: the one request of the behaviour
Once(request) ==
    /\ requests = 0
    /\ requests' = 1
    /\ UNCHANGED inflight
    /\ request

\* a request served on a seeded store, any number of times
Again(request) ==
    /\ requests' = requests
    /\ UNCHANGED inflight
    /\ request

(***************************************************************************)
(* SpecFinder: the conflict finder on a store of two order items.          *)
(***************************************************************************)
InitFinder ==
    \E iv1, iv2 \in StoreIntervals, i1, i2 \in InvIds, d1, d2 \in BOOLEAN :
        /\ orders = <<StoredOrder(1, iv1, OrderStatusOf(AVAILABLE, d1), FALSE),
                      StoredOrder(2, iv2, OrderStatusOf(AVAILABLE, d2), FALSE)>>
        /\ items = {StoredItem(1, i1, iv1, AVAILABLE, FALSE, d1),
                    StoredItem(2, i2, iv2, AVAILABLE, FALSE, d2)}
        /\ last = Response("init", 0, "", 0)
        /\ requests = 0
        /\ inflight = {}

NextFinder ==
    \E i \in InvIds, g \in 1..3, iv \in StoreIntervals :
        Once(callFindConflictingOrderItems(i, g, iv[1], iv[2]))

SpecFinder == InitFinder /\ [][NextFinder]_vars

(***************************************************************************)
(* SpecResolver: the tier resolver for order 1's item, against the items   *)
(* of the other orders on the same inventory.                              *)
(***************************************************************************)
ResolverStatuses == holdStatuses \cup {CONFIRMED, AVAILABLE}

InitResolver ==
    \E iv1 \in {FirstInstant, WholeSpan} :
    \E ivs \in [2..StoreGroups -> {FirstInstant, LaterSpan}] :
    \E sts \in [2..StoreGroups -> ResolverStatuses] :
        /\ orders = [g \in 1..StoreGroups |->
                        IF g = 1
                        THEN StoredOrder(1, iv1, ORDER_WORKING, FALSE)
                        ELSE StoredOrder(g, ivs[g], OrderStatusOf(sts[g], FALSE),
                                         sts[g] \in holdStatuses)]
        /\ items = {StoredItem(1, "invA", iv1, AVAILABLE, FALSE, FALSE)} \cup
                   {StoredItem(g, "invA", ivs[g], sts[g],
                               sts[g] \in holdStatuses, FALSE) :
                        g \in 2..StoreGroups}
        /\ last = Response("init", 0, "", 0)
        /\ requests = 0
        /\ inflight = {}

NextResolver ==
    \/ Once(callCalculateOrderItemStatus(<<1, "invA", 1>>))
    \/ Once(callGetStatus(<<1, "invA", 1>>))

SpecResolver == InitResolver /\ [][NextResolver]_vars

(***************************************************************************)
(* SpecLadder: every order holds one available item on the same inventory  *)
(* and interval; the requests are hold requests.                           *)
(***************************************************************************)
InitLadder ==
    \E iv \in StoreIntervals, i \in InvIds :
        /\ orders = [g \in 1..StoreGroups |->
                        StoredOrder(g, iv, ORDER_WORKING, FALSE)]
        /\ items = {StoredItem(g, i, iv, AVAILABLE, FALSE, FALSE) :
                        g \in 1..StoreGroups}
        /\ last = Response("init", 0, "", 0)
        /\ requests = 0
        /\ inflight = {}

NextLadder == \E g \in 1..StoreGroups : Again(requestHold(g))

SpecLadder == InitLadder /\ [][NextLadder]_vars

(***************************************************************************)
(* SpecConfirm: order 1 with one or two items, orders 2 and 3 with one     *)
(* item each; the request is a confirmation.                               *)
(***************************************************************************)
ConfirmOrderStatuses ==
    {ORDER_WORKING, ORDER_HOLD, ORDER_CANCELLED, ORDER_CONFIRM}
ConfirmMemberStatuses ==
    {AVAILABLE, ON_HOLD, ON_HOLD_REQUEST, SECOND_HOLD, UNAVAILABLE,
     UNAVAILABLE_UNTIL}
\* the second item of order 1: none, or one with this status
ConfirmSecondMember == {"", AVAILABLE, ON_HOLD_REQUEST}
ConfirmOtherStatuses ==
    {ON_HOLD_REQUEST, SECOND_HOLD, CONFIRMED, AVAILABLE, UNAVAILABLE, "clean"}
ConfirmThirdStatuses ==
    {THIRD_HOLD_REQUEST, CANCELLED, STATUS_IN, UNAVAILABLE_UNTIL}

InitConfirm ==
    \E iv1 \in {FirstInstant, WholeSpan}, iv2, iv3 \in {FirstInstant, LaterSpan} :
    \E os1 \in ConfirmOrderStatuses, sA \in ConfirmMemberStatuses,
       sB \in ConfirmSecondMember :
    \E i2 \in InvIds, s2 \in ConfirmOtherStatuses, h2 \in BOOLEAN,
       s3 \in ConfirmThirdStatuses :
        /\ orders = <<StoredOrder(1, iv1, os1, os1 = ORDER_HOLD),
                      StoredOrder(2, iv2, OrderStatusOf(s2, FALSE), h2),
                      StoredOrder(3, iv3, OrderStatusOf(s3, FALSE), TRUE)>>
        /\ items =
              {StoredItem(1, "invA", iv1, sA, os1 = ORDER_HOLD, FALSE),
               StoredItem(2, i2, iv2, s2, h2, FALSE),
               StoredItem(3, "invA", iv3, s3, TRUE, FALSE)}
              \cup (IF sB = "" THEN {}
                    ELSE {StoredItem(1, "invB", iv1, sB, os1 = ORDER_HOLD,
                                     FALSE)})
        /\ last = Response("init", 0, "", 0)
        /\ requests = 0
        /\ inflight = {}

NextConfirm == \E g \in 1..4 : Once(confirmOrder(g))

SpecConfirm == InitConfirm /\ [][NextConfirm]_vars

(***************************************************************************)
(* SpecDelete: three orders with one item each, order 1 with or without a  *)
(* second item; the request deletes an order item.                         *)
(***************************************************************************)
\* the second item of order 1: none, one kept, one deleted
DateSecondMember == {"none", "kept", "deleted"}
DeleteStatuses ==
    holdStatuses \cup
        {AVAILABLE, UNAVAILABLE, UNAVAILABLE_UNTIL, CONFIRMED, "clean"}

InitDelete ==
    \E iv1, iv3 \in {FirstInstant, LaterSpan}, iv2 \in {FirstInstant, WholeSpan} :
    \E i3 \in InvIds, s1, s2, s3 \in DeleteStatuses, m1 \in DateSecondMember :
        /\ orders = <<StoredOrder(1, iv1, OrderStatusOf(s1, FALSE),
                                  OrderStatusOf(s1, FALSE) = ORDER_HOLD),
                      StoredOrder(2, iv2, OrderStatusOf(s2, FALSE),
                                  OrderStatusOf(s2, FALSE) = ORDER_HOLD),
                      StoredOrder(3, iv3, OrderStatusOf(s3, FALSE),
                                  OrderStatusOf(s3, FALSE) = ORDER_HOLD)>>
        /\ items =
              {StoredItem(1, "invA", iv1, s1,
                          OrderStatusOf(s1, FALSE) = ORDER_HOLD, FALSE),
               StoredItem(2, "invA", iv2, s2,
                          OrderStatusOf(s2, FALSE) = ORDER_HOLD, FALSE),
               StoredItem(3, i3, iv3, s3,
                          OrderStatusOf(s3, FALSE) = ORDER_HOLD, FALSE)}
              \cup (IF m1 = "none" THEN {}
                    ELSE {StoredItem(1, "invB", iv1, AVAILABLE,
                                     OrderStatusOf(s1, FALSE) = ORDER_HOLD,
                                     m1 = "deleted")})
        /\ last = Response("init", 0, "", 0)
        /\ requests = 0
        /\ inflight = {}

NextDelete ==
    \E id \in {<<g, i, 1>> : g \in 1..3, i \in InvIds} :
        Once(deleteOrderItem(id))

SpecDelete == InitDelete /\ [][NextDelete]_vars

(***************************************************************************)
(* SpecDeleteFails: the stores of SpecDelete; the request deletes an order *)
(* item and the store may reject a write of the escalation pass.           *)
(***************************************************************************)
NextDeleteFails ==
    \E id \in {<<g, i, 1>> : g \in 1..3, i \in InvIds} :
        \/ Once(deleteOrderItem(id))
        \/ Once(deleteOrderItemWriteFails(id))

SpecDeleteFails == InitDelete /\ [][NextDeleteFails]_vars

(***************************************************************************)
(* SpecDates: order 1 with one or two items, orders 2 and 3 with one item  *)
(* each; the request is an update of order 1's dates (or of an order that  *)
(* does not exist), and a preview is followed by the same request with     *)
(* either value of `confirmed`.                                            *)
(***************************************************************************)
DateOrderStatuses == {ORDER_WORKING, ORDER_HOLD, ORDER_CONFIRM}
DateMemberStatuses ==
    {AVAILABLE, ON_HOLD_REQUEST, SECOND_HOLD, UNAVAILABLE_UNTIL}
DateOtherStatuses == {CONFIRMED, ON_HOLD, SECOND_HOLD_REQUEST, AVAILABLE}
DateThirdStatuses == {CONFIRMED, ON_HOLD}
DateProbes == {FirstInstant, LaterSpan, WholeSpan}

InitDates ==
    \E iv1 \in {FirstInstant, WholeSpan}, iv2, iv3 \in {FirstInstant, LaterSpan} :
    \E os1 \in DateOrderStatuses, sA \in DateMemberStatuses,
       mB \in DateSecondMember :
    \E i2 \in InvIds, s2 \in DateOtherStatuses, s3 \in DateThirdStatuses :
        /\ orders = <<StoredOrder(1, iv1, os1, os1 = ORDER_HOLD),
                      StoredOrder(2, iv2, OrderStatusOf(s2, FALSE),
                                  OrderStatusOf(s2, FALSE) = ORDER_HOLD),
                      StoredOrder(3, iv3, OrderStatusOf(s3, FALSE),
                                  OrderStatusOf(s3, FALSE) = ORDER_HOLD)>>
        /\ items =
              {StoredItem(1, "invA", iv1, sA, os1 = ORDER_HOLD, FALSE),
               StoredItem(2, i2, iv2, s2,
                          OrderStatusOf(s2, FALSE) = ORDER_HOLD, FALSE),
               StoredItem(3, "invA", iv3, s3,
                          OrderStatusOf(s3, FALSE) = ORDER_HOLD, FALSE)}
              \cup (IF mB = "none" THEN {}
                    ELSE {StoredItem(1, "invB", iv1, AVAILABLE,
                                     os1 = ORDER_HOLD, mB = "deleted")})
        /\ last = Response("init", 0, "", 0)
        /\ requests = 0
        /\ inflight = {}

\* the request that follows a preview: the same one, confirmed or not
AfterPreview(request) ==
    /\ requests = 1
    /\ last.op = "updateOrder"
    /\ last.action = "requiresConfirmation"
    /\ requests' = requests + 1
    /\ UNCHANGED inflight
    /\ request

NextDates ==
    \/ \E g \in {1, StoreGroups}, iv \in DateProbes, c \in BOOLEAN :
          Once(updateOrderDates(g, iv[1], iv[2], NoStatus, c))
    \/ \E c \in BOOLEAN :
          AfterPreview(updateOrderDates(last.order_id, last.args[1],
                                        last.args[2], NoStatus, c))

SpecDates == InitDates /\ [][NextDates]_vars

(***************************************************************************)
(* SpecAdd: two orders, order 2 with or without an item; clients add items *)
(* to order 1 (or to an order that does not exist) and their requests      *)
(* interleave between the existingOrderItem check and the save.            *)
(***************************************************************************)
Clients == 1..NumClients
AddStatuses == {"", CONFIRMED}

InitAdd ==
    \E iv2 \in {FirstInstant, LaterSpan}, i2 \in InvIds, s2 \in AddStatuses :
        /\ orders = <<StoredOrder(1, FirstInstant, ORDER_WORKING, FALSE),
                      StoredOrder(2, iv2, OrderStatusOf(s2, FALSE), FALSE)>>
        /\ items = IF s2 = "" THEN {}
                   ELSE {StoredItem(2, i2, iv2, s2, FALSE, FALSE)}
        /\ last = Response("init", 0, "", 0)
        /\ requests = 0
        /\ inflight = {}

NextAdd ==
    \/ \E k \in Clients, i \in InvIds, g \in {1, StoreGroups} :
          createOrderItemCheck(k, i, g)
    \/ \E k \in Clients : createOrderItemSave(k)

SpecAdd == InitAdd /\ [][NextAdd]_vars

(***************************************************************************)
(* SpecHold: order 1 with up to two items, deleted or not, orders 2 and 3  *)
(* with one item each; the request is a hold request for order 1 or for an *)
(* order that does not exist.                                              *)
(***************************************************************************)
HoldMemberStatuses == {AVAILABLE, ON_HOLD_REQUEST, CONFIRMED}
HoldOtherStatuses ==
    {AVAILABLE, ON_HOLD, SECOND_HOLD_REQUEST, THIRD_HOLD, CONFIRMED}

InitHold ==
    \E iv1 \in {FirstInstant, WholeSpan}, iv2, iv3 \in {FirstInstant, LaterSpan} :
    \E sA \in HoldMemberStatuses, dA \in BOOLEAN, mB \in DateSecondMember :
    \E i2 \in InvIds, s2, s3 \in HoldOtherStatuses :
        /\ orders = <<StoredOrder(1, iv1, OrderStatusOf(sA, dA), FALSE),
                      StoredOrder(2, iv2, OrderStatusOf(s2, FALSE),
                                  OrderStatusOf(s2, FALSE) = ORDER_HOLD),
                      StoredOrder(3, iv3, OrderStatusOf(s3, FALSE),
                                  OrderStatusOf(s3, FALSE) = ORDER_HOLD)>>
        /\ items =
              {StoredItem(1, "invA", iv1, sA, FALSE, dA),
               StoredItem(2, i2, iv2, s2,
                          OrderStatusOf(s2, FALSE) = ORDER_HOLD, FALSE),
               StoredItem(3, "invA", iv3, s3,
                          OrderStatusOf(s3, FALSE) = ORDER_HOLD, FALSE)}
              \cup (IF mB = "none" THEN {}
                    ELSE {StoredItem(1, "invB", iv1, AVAILABLE, FALSE,
                                     mB = "deleted")})
        /\ last = Response("init", 0, "", 0)
        /\ requests = 0
        /\ inflight = {}

NextHold == \E g \in {1, StoreGroups} : Once(requestHold(g))

SpecHold == InitHold /\ [][NextHold]_vars

(***************************************************************************)
(* SpecHoldTwice: the stores of SpecHold; the hold request is served and   *)
(* then served again.                                                      *)
(***************************************************************************)
\* the request that follows a hold request answered 200
AfterHold(request) ==
    /\ requests = 1
    /\ last.op = "requestHold"
    /\ last.code = 200
    /\ requests' = requests + 1
    /\ UNCHANGED inflight
    /\ request

NextHoldTwice ==
    \/ \E g \in {1, StoreGroups} : Once(requestHold(g))
    \/ AfterHold(requestHold(last.order_id))

SpecHoldTwice == InitHold /\ [][NextHoldTwice]_vars

(***************************************************************************)
(* SpecRace: orders 1 and 2 with an item each on the same inventory item,  *)
(* order 3 with a hold on it; clients confirm orders and their requests    *)
(* interleave between validation, write and sweep.                         *)
(***************************************************************************)
RaceStatuses == {AVAILABLE, ON_HOLD}

InitRace ==
    \E iv1 \in {FirstInstant, WholeSpan}, iv2 \in {FirstInstant, LaterSpan} :
    \E s1, s2 \in RaceStatuses, h1, h2 \in BOOLEAN :
        /\ orders = <<StoredOrder(1, iv1, OrderStatusOf(s1, FALSE), h1),
                      StoredOrder(2, iv2, OrderStatusOf(s2, FALSE), h2),
                      StoredOrder(3, WholeSpan, ORDER_HOLD, TRUE)>>
        /\ items = {StoredItem(1, "invA", iv1, s1, h1, FALSE),
                    StoredItem(2, "invA", iv2, s2, h2, FALSE),
                    StoredItem(3, "invA", WholeSpan, SECOND_HOLD_REQUEST,
                               TRUE, FALSE)}
        /\ last = Response("init", 0, "", 0)
        /\ requests = 0
        /\ inflight = {}

NextRace ==
    \/ \E k \in Clients, g \in {1, 2, StoreGroups} : confirmOrderValidate(k, g)
    \/ \E k \in Clients : confirmOrderWrite(k)
    \/ \E k \in Clients : confirmOrderSweep(k)

SpecRace == InitRace /\ [][NextRace]_vars

(***************************************************************************)
(* Spec: the controllers on an empty store.                                *)
(***************************************************************************)
\* one request served, while the model's budget of requests lasts
Serve(request) ==
    /\ requests < MaxRequests
    /\ requests' = requests + 1
    /\ UNCHANGED inflight
    /\ request

Init ==
    /\ orders = << >>
    /\ items = {}
    /\ last = Response("init", 0, "", 0)
    /\ requests = 0
    /\ inflight = {}

Next ==
    \/ \E iv \in Intervals : Serve(createOrder(iv[1], iv[2]))
    \/ \E i \in InvIds, g \in OrderIds : Serve(createOrderItem(i, g))
    \/ \E g \in OrderIds : Serve(requestHold(g))
    \/ \E g \in OrderIds : Serve(confirmOrder(g))
    \/ \E id \in ItemIds : Serve(deleteOrderItem(id))
    \/ \E g \in OrderIds, iv \in Intervals, st \in StatusArgs, c \in BOOLEAN :
          Serve(updateOrderDates(g, iv[1], iv[2], st, c))
    \/ \E g \in OrderIds, st \in StatusArgs : Serve(updateOrderStatus(g, st))

Spec == Init /\ [][Next]_vars

(***************************************************************************)
(* SpecQueue: the empty store again, with the requests that build and      *)
(* shorten a queue of holds on one inventory item; behaviours are longer   *)
(* than those of Spec.                                                     *)
(***************************************************************************)
ServeQueue(request) ==
    /\ requests < QueueRequests
    /\ requests' = requests + 1
    /\ UNCHANGED inflight
    /\ request

NextQueue ==
    \/ \E iv \in Intervals : ServeQueue(createOrder(iv[1], iv[2]))
    \/ \E g \in OrderIds : ServeQueue(createOrderItem("invA", g))
    \/ \E g \in OrderIds : ServeQueue(requestHold(g))
    \/ \E g \in OrderIds : ServeQueue(deleteOrderItem(<<g, "invA", 1>>))

SpecQueue == Init /\ [][NextQueue]_vars

(***************************************************************************)
(* The claims.  They speak of conflicts in their own terms: a reservation  *)
(* of another group, not deleted, on the same inventory item, whose closed *)
(* interval intersects the queried one.                                    *)
(***************************************************************************)
Intersects(pickup1, return1, pickup2, return2) ==
    pickup1 <= return2 /\ return1 >= pickup2

\* the reservations that conflict with a query for (inventory, group,
\* [pickup, ret])
ConflictsOf(inventoryId, groupId, pickup, ret) ==
    {c \in items :
        /\ c.oi_deleted = FALSE
        /\ c.oi_inventory_fk_inventory_id = inventoryId
        /\ c.oi_order_fk_order_id # groupId
        /\ Intersects(c.oi_pickup_at, c.oi_return_at, pickup, ret)}

\* the conflicts of the resolver call that `last` answers: the call reads
\* the interval of the order
ResolvedConflicts ==
    ConflictsOf(last.inventory, last.order_id,
                orders[last.order_id].order_pickup_at,
                orders[last.order_id].order_return_at)

Tier1 == {ON_HOLD_REQUEST, ON_HOLD}
Tier2 == {SECOND_HOLD_REQUEST, SECOND_HOLD}
Tier3 == {THIRD_HOLD_REQUEST, THIRD_HOLD}

(* C1, as stated: whenever another group's confirmed reservation on the    *)
(* item intersects the queried interval, the resolver answers              *)
(* unavailable-until with that reservation's return instant.               *)
C1_Original ==
    last.op = "calculateOrderItemStatus" =>
        \A c \in ResolvedConflicts :
            c.oi_status = CONFIRMED =>
                /\ last.status = UNAVAILABLE_UNTIL
                /\ last.unavailable_until = DateAt(c.oi_return_at)

(* C1, amended: with a confirmed conflict the resolver answers             *)
(* unavailable-until, and the blocking instant is the return instant of    *)
(* one of the confirmed conflicts (of the only one, when there is one).    *)
C1_ConfirmedConflict ==
    (/\ last.op = "calculateOrderItemStatus"
     /\ \E c \in ResolvedConflicts : c.oi_status = CONFIRMED)
    => /\ last.status = UNAVAILABLE_UNTIL
       /\ \E c \in ResolvedConflicts :
             /\ c.oi_status = CONFIRMED
             /\ last.unavailable_until = DateAt(c.oi_return_at)

\* a call answered with the return instant of the only confirmed conflict,
\* which is not its pickup instant
C1_Witness ==
    /\ last.op = "calculateOrderItemStatus"
    /\ last.status = UNAVAILABLE_UNTIL
    /\ Cardinality({c \in ResolvedConflicts : c.oi_status = CONFIRMED}) = 1
    /\ \E c \in ResolvedConflicts :
          /\ c.oi_status = CONFIRMED
          /\ c.oi_pickup_at < c.oi_return_at
          /\ last.unavailable_until = DateAt(c.oi_return_at)

\* the status the claim's table assigns for a set of hold conflicts
ClaimedTier(holds) ==
    LET n == Cardinality(holds) IN
    CASE n >= 3 -> UNAVAILABLE
      [] n = 0 -> ON_HOLD_REQUEST
      [] n = 1 /\ (\A c \in holds : c.oi_status \in Tier1) -> SECOND_HOLD_REQUEST
      [] n = 2 /\ (\A c \in holds : c.oi_status \in Tier1 \cup Tier2)
                                                    -> THIRD_HOLD_REQUEST
      [] OTHER -> ON_HOLD_REQUEST

(* C2: with no confirmed conflict, the resolver answers by the number n of *)
(* conflicts in a hold tier: unavailable for n >= 3, tier-1 request for    *)
(* n = 0, tier-2 request for one tier-1 conflict, tier-3 request for two   *)
(* conflicts in tier 1 or 2, tier-1 request otherwise; no blocking instant. *)
C2_TierAssignment ==
    (/\ last.op = "calculateOrderItemStatus"
     /\ \A c \in ResolvedConflicts : c.oi_status # CONFIRMED)
    => /\ last.status =
            ClaimedTier({c \in ResolvedConflicts :
                            c.oi_status \in Tier1 \cup Tier2 \cup Tier3})
       /\ last.unavailable_until = NoDate

\* a tier-3 request answered against a granted tier-1 and a tier-2 request
C2_Witness ==
    /\ last.op = "calculateOrderItemStatus"
    /\ last.status = THIRD_HOLD_REQUEST
    /\ \E c \in ResolvedConflicts : c.oi_status = ON_HOLD
    /\ \E c \in ResolvedConflicts : c.oi_status = SECOND_HOLD_REQUEST

\* the group has requested a hold
Held(g) == orders[g].order_request_hold

\* the status the n-th successive request receives
LadderStatus(n) ==
    CASE n = 1 -> ON_HOLD_REQUEST
      [] n = 2 -> SECOND_HOLD_REQUEST
      [] n = 3 -> THIRD_HOLD_REQUEST
      [] OTHER -> UNAVAILABLE

(* C3: when groups request a hold one after another on the same item and   *)
(* interval, the first request of the n-th group receives tier-1, tier-2,  *)
(* tier-3 request for n = 1, 2, 3 and unavailable for n = 4.               *)
C3_Ladder ==
    [][\A g \in 1..StoreGroups :
          (/\ last'.op = "requestHold"
           /\ last'.order_id = g
           /\ last'.code = 200
           /\ ~Held(g))
          => \A r \in items' :
                r.oi_order_fk_order_id = g =>
                    r.oi_status =
                        LadderStatus(1 + Cardinality({h \in 1..StoreGroups :
                                                        Held(h)}))]_vars

\* the fourth group's request has been answered unavailable, the three
\* before it hold tiers 1, 2 and 3
C3_Witness ==
    /\ last.op = "requestHold"
    /\ \E r1, r2, r3, r4 \in items :
          /\ r1.oi_status = ON_HOLD_REQUEST
          /\ r2.oi_status = SECOND_HOLD_REQUEST
          /\ r3.oi_status = THIRD_HOLD_REQUEST
          /\ r4.oi_status = UNAVAILABLE
          /\ r4.oi_order_fk_order_id = last.order_id

(* C8: findConflicts returns exactly the reservations that are not         *)
(* deleted, on the same item, of a group other than the excluded one, and  *)
(* whose interval overlaps [start, end]; it changes no state.              *)
C8_FinderResult ==
    [][last'.op = "findConflictingOrderItems" =>
          /\ last'.found =
                {c.oi_id : c \in {x \in items :
                    /\ x.oi_deleted = FALSE
                    /\ x.oi_inventory_fk_inventory_id = last'.inventory
                    /\ x.oi_order_fk_order_id # last'.order_id
                    /\ Intersects(x.oi_pickup_at, x.oi_return_at,
                                  last'.args[1], last'.args[2])}}
          /\ items' = items
          /\ orders' = orders]_vars

\* a call that returned one reservation and left out a soft-deleted one on
\* the same item and an overlapping interval
C8_Witness ==
    /\ last.op = "findConflictingOrderItems"
    /\ last.found # {}
    /\ \E d \in items :
          /\ d.oi_deleted
          /\ d.oi_inventory_fk_inventory_id = last.inventory
          /\ d.oi_order_fk_order_id # last.order_id
          /\ Intersects(d.oi_pickup_at, d.oi_return_at,
                        last.args[1], last.args[2])
          /\ d.oi_id \notin last.found

(* C9: for well-formed intervals the three-case test of the finder holds   *)
(* exactly when the closed intervals intersect: disjoint intervals never   *)
(* conflict, intervals touching at an endpoint do.                         *)
C9_OverlapComplete ==
    last.op = "findConflictingOrderItems" =>
        \A c \in items :
            DateFilter(c, last.args[1], last.args[2])
                <=> Intersects(c.oi_pickup_at, c.oi_return_at,
                               last.args[1], last.args[2])

\* a reservation returned for a query interval that only touches it at the
\* query's end, as [10,20] and [20,30] do
C9_Witness ==
    /\ last.op = "findConflictingOrderItems"
    /\ last.args[1] < last.args[2]
    /\ \E c \in items :
          /\ c.oi_id \in last.found
          /\ c.oi_pickup_at = last.args[2]
          /\ c.oi_pickup_at < c.oi_return_at

(* C10: for two reservations that are not deleted, on the same item and of *)
(* different groups, each is among the conflicts of the other or neither   *)
(* is.                                                                     *)
C10_Symmetry ==
    \A r1, r2 \in items :
        (/\ r1.oi_deleted = FALSE /\ r2.oi_deleted = FALSE
         /\ r1.oi_inventory_fk_inventory_id = r2.oi_inventory_fk_inventory_id
         /\ r1.oi_order_fk_order_id # r2.oi_order_fk_order_id)
        => (r2 \in findConflictingOrderItems(items,
                        r1.oi_inventory_fk_inventory_id,
                        r1.oi_order_fk_order_id,
                        r1.oi_pickup_at, r1.oi_return_at)
            <=> r1 \in findConflictingOrderItems(items,
                        r2.oi_inventory_fk_inventory_id,
                        r2.oi_order_fk_order_id,
                        r2.oi_pickup_at, r2.oi_return_at))

\* the finder, queried with one reservation's group and interval, returned
\* a reservation lying strictly inside that interval
C10_Witness ==
    /\ last.op = "findConflictingOrderItems"
    /\ \E r1, r2 \in items :
          /\ last.order_id = r1.oi_order_fk_order_id
          /\ last.inventory = r1.oi_inventory_fk_inventory_id
          /\ last.args = <<r1.oi_pickup_at, r1.oi_return_at>>
          /\ r1.oi_deleted = FALSE
          /\ r2.oi_id \in last.found
          /\ r1.oi_pickup_at < r2.oi_pickup_at
          /\ r2.oi_return_at < r1.oi_return_at

\* the members of group g: its reservations that are not deleted
Members(g) == {r \in items : r.oi_order_fk_order_id = g /\ r.oi_deleted = FALSE}

(* C4: Confirm fails when the group is cancelled, when it is already       *)
(* confirmed, or when a member that is not deleted has a status other than *)
(* available or granted tier-1 hold; on such a failure no group and no     *)
(* reservation changes.                                                    *)
C4_ConfirmPreconditions ==
    [][\A g \in DOMAIN orders :
          (/\ last'.op = "confirmOrder"
           /\ last'.order_id = g
           /\ \/ orders[g].order_status = ORDER_CANCELLED
              \/ orders[g].order_status = ORDER_CONFIRM
              \/ \E r \in Members(g) : r.oi_status \notin {AVAILABLE, ON_HOLD})
          => /\ last'.code = 400
             /\ orders' = orders
             /\ items' = items]_vars

\* a confirmation refused for a group that is neither cancelled nor
\* confirmed, with an available member and a member in a hold request,
\* while another group's hold on a member's item waited to be swept
C4_Witness ==
    /\ last.op = "confirmOrder"
    /\ last.code = 400
    /\ orders[last.order_id].order_status = ORDER_HOLD
    /\ \E r \in Members(last.order_id) : r.oi_status = AVAILABLE
    /\ \E r \in Members(last.order_id) : r.oi_status = ON_HOLD_REQUEST
    /\ \E r \in Members(last.order_id) :
          \E c \in ConflictsOf(r.oi_inventory_fk_inventory_id, last.order_id,
                               orders[last.order_id].order_pickup_at,
                               orders[last.order_id].order_return_at) :
             c.oi_request_hold /\ c.oi_status = SECOND_HOLD

\* the conflicts of the members of g over the interval of g
MemberConflicts(g) ==
    UNION {ConflictsOf(r.oi_inventory_fk_inventory_id, g,
                       orders[g].order_pickup_at,
                       orders[g].order_return_at) : r \in Members(g)}

\* what a successful Confirm of g makes of reservation r
Confirmed(g, r) ==
    IF r \in Members(g)
    THEN [r EXCEPT !.oi_status = CONFIRMED]
    ELSE IF /\ r \in MemberConflicts(g)
            /\ r.oi_request_hold
            /\ r.oi_status \notin {CANCELLED, AVAILABLE, STATUS_IN,
                                   UNAVAILABLE, UNAVAILABLE_UNTIL}
    THEN [r EXCEPT !.oi_status = UNAVAILABLE_UNTIL,
                   !.oi_unavailable_until = DateAt(orders[g].order_return_at)]
    ELSE r

(* C5: a successful Confirm makes the group and every member confirmed,    *)
(* sets every conflict of a member that has its request-hold flag set and  *)
(* a status outside {cancelled, available, in, unavailable,                *)
(* unavailable-until} to unavailable-until with the group's return         *)
(* instant, and leaves every other reservation of other groups unchanged.  *)
C5_ConfirmEffects ==
    [][\A g \in DOMAIN orders :
          (/\ last'.op = "confirmOrder"
           /\ last'.order_id = g
           /\ last'.code = 200)
          => /\ orders'[g].order_status = ORDER_CONFIRM
             /\ items' = {Confirmed(g, r) : r \in items}]_vars

\* a confirmation that swept a flagged hold to the group's return instant
\* and left a conflicting hold without the flag as it was
C5_Witness ==
    /\ last.op = "confirmOrder"
    /\ last.code = 200
    /\ \E r \in Members(last.order_id) : r.oi_status = CONFIRMED
    /\ \E c \in MemberConflicts(last.order_id) :
          /\ c.oi_status = UNAVAILABLE_UNTIL
          /\ c.oi_request_hold
          /\ c.oi_unavailable_until =
                DateAt(orders[last.order_id].order_return_at)
          /\ c.oi_unavailable_until # DateAt(StoreMaxTime)
    /\ \E c \in MemberConflicts(last.order_id) :
          c.oi_status \in holdStatuses /\ ~c.oi_request_hold

\* the reservation a delete request removes: the one `last'` names
Removed(r) ==
    /\ r.oi_deleted = FALSE
    /\ r.oi_order_fk_order_id = last'.order_id
    /\ r.oi_inventory_fk_inventory_id = last'.inventory

\* one tier down, the sub-state kept; tier 1 stays
OneTierDown(status) ==
    CASE status = SECOND_HOLD_REQUEST -> ON_HOLD_REQUEST
      [] status = SECOND_HOLD -> ON_HOLD
      [] status = THIRD_HOLD_REQUEST -> SECOND_HOLD_REQUEST
      [] status = THIRD_HOLD -> SECOND_HOLD
      [] OTHER -> status

(* C6: deleting a reservation in a tier-1 state moves every conflicting    *)
(* reservation in tier 2 or 3 down exactly one tier, request staying       *)
(* request and granted staying granted, and leaves every conflicting       *)
(* tier-1 reservation unchanged.                                           *)
C6_TierOnePromotes ==
    [][(/\ last'.op = "deleteOrderItem"
        /\ last'.code = 200
        /\ last'.status \in Tier1)
       => \A d \in items :
             Removed(d) =>
                \A c \in ConflictsOf(d.oi_inventory_fk_inventory_id,
                                     d.oi_order_fk_order_id,
                                     d.oi_pickup_at, d.oi_return_at) :
                    c.oi_status \in Tier1 \cup Tier2 \cup Tier3
                    => [c EXCEPT !.oi_status = OneTierDown(c.oi_status)]
                          \in items']_vars

\* a tier-1 deletion that promoted two conflicts: one is now a granted
\* tier-1 hold, the other a tier-2 request
C6_Witness ==
    /\ last.op = "deleteOrderItem"
    /\ last.status \in Tier1
    /\ last.count = 2
    /\ \E c \in items : c.oi_deleted = FALSE /\ c.oi_status = ON_HOLD
    /\ \E c \in items : c.oi_deleted = FALSE /\ c.oi_status = SECOND_HOLD_REQUEST

(* C7: deleting a confirmed reservation sets a conflicting reservation in  *)
(* unavailable or unavailable-until to available, with no blocking         *)
(* instant, if and only if no other confirmed reservation that is not      *)
(* deleted, on the same item, overlaps the interval of the conflict's own  *)
(* group; otherwise the conflict is left as it is.                         *)
C7_ConfirmedReleases ==
    [][(/\ last'.op = "deleteOrderItem"
        /\ last'.code = 200
        /\ last'.status = CONFIRMED)
       => \A d \in items :
             Removed(d) =>
                \A c \in ConflictsOf(d.oi_inventory_fk_inventory_id,
                                     d.oi_order_fk_order_id,
                                     d.oi_pickup_at, d.oi_return_at) :
                    c.oi_status \in {UNAVAILABLE, UNAVAILABLE_UNTIL}
                    => IF \E k \in items \ {d, c} :
                             /\ k.oi_deleted = FALSE
                             /\ k.oi_status = CONFIRMED
                             /\ k.oi_inventory_fk_inventory_id =
                                    c.oi_inventory_fk_inventory_id
                             /\ Intersects(
                                    k.oi_pickup_at, k.oi_return_at,
                                    orders[c.oi_order_fk_order_id].order_pickup_at,
                                    orders[c.oi_order_fk_order_id].order_return_at)
                       THEN c \in items'
                       ELSE [c EXCEPT !.oi_status = AVAILABLE,
                                      !.oi_unavailable_until = NoDate]
                                \in items']_vars

\* a confirmed deletion that released nothing: the blocked conflict is
\* still overlapped by a confirmed reservation that did not overlap the
\* deleted one
C7_Witness ==
    /\ last.op = "deleteOrderItem"
    /\ last.status = CONFIRMED
    /\ last.count = 0
    /\ \E d, c, k \in items :
          /\ d.oi_deleted /\ d.oi_order_fk_order_id = last.order_id
          /\ c.oi_deleted = FALSE /\ c.oi_status = UNAVAILABLE_UNTIL
          /\ c.oi_inventory_fk_inventory_id = d.oi_inventory_fk_inventory_id
          /\ Intersects(c.oi_pickup_at, c.oi_return_at,
                        d.oi_pickup_at, d.oi_return_at)
          /\ k.oi_deleted = FALSE /\ k.oi_status = CONFIRMED
          /\ k.oi_inventory_fk_inventory_id = c.oi_inventory_fk_inventory_id
          /\ Intersects(k.oi_pickup_at, k.oi_return_at,
                        c.oi_pickup_at, c.oi_return_at)
          /\ ~Intersects(k.oi_pickup_at, k.oi_return_at,
                         d.oi_pickup_at, d.oi_return_at)

\* the response of a date update: the body carried dates
DateRequest(resp) == resp.op = "updateOrder" /\ Len(resp.args) = 3

(* C11: a date update fails when the group is already confirmed, and fails *)
(* as a whole when a member that is not deleted would, on the new          *)
(* interval, conflict with a confirmed reservation of another group; in    *)
(* both cases no group and no reservation changes, with or without         *)
(* confirmed=true.                                                         *)
C11_DateUpdateRejected ==
    [][\A g \in DOMAIN orders :
          (/\ DateRequest(last')
           /\ last'.order_id = g
           /\ \/ orders[g].order_status = ORDER_CONFIRM
              \/ \E m \in Members(g) :
                    \E c \in ConflictsOf(m.oi_inventory_fk_inventory_id, g,
                                         last'.args[1], last'.args[2]) :
                        c.oi_status = CONFIRMED)
          => /\ last'.code \in {400, 409}
             /\ orders' = orders
             /\ items' = items]_vars

\* a date update passed with confirmed=true and refused for a confirmed
\* conflict on the new interval, which the group's stored interval does not
\* have
C11_Witness ==
    /\ DateRequest(last)
    /\ last.code = 409
    /\ last.args[3]
    /\ \E m \in Members(last.order_id) :
          /\ \E c \in ConflictsOf(m.oi_inventory_fk_inventory_id,
                                  last.order_id, last.args[1], last.args[2]) :
                c.oi_status = CONFIRMED
          /\ \A c \in ConflictsOf(m.oi_inventory_fk_inventory_id,
                                  last.order_id, m.oi_pickup_at,
                                  m.oi_return_at) :
                c.oi_status # CONFIRMED

(* C12: a date update without confirmed=true leaves every group and every  *)
(* reservation unchanged, and when it is not refused it returns one        *)
(* proposed status for each member that is not deleted.                    *)
C12_PreviewPure ==
    [][(DateRequest(last') /\ ~last'.args[3])
       => /\ orders' = orders
          /\ items' = items
          /\ last'.code = 200
             => /\ last'.action = "requiresConfirmation"
                /\ {e.itemId : e \in last'.itemStatusChanges}
                      = {m.oi_id : m \in Members(last'.order_id)}
                /\ \A e \in last'.itemStatusChanges :
                      e.newStatus \in ORDER_ITEM_STATUS]_vars

\* a preview on an interval other than the group's, proposing for a member
\* a status other than the one it has
C12_Witness ==
    /\ DateRequest(last)
    /\ last.action = "requiresConfirmation"
    /\ ~last.args[3]
    /\ orders[last.order_id].order_pickup_at # last.args[1]
    /\ \E m \in Members(last.order_id) :
          \E e \in last.itemStatusChanges :
             e.itemId = m.oi_id /\ e.newStatus # m.oi_status

C14_BlockingInstant ==
    \A r \in items :
        r.oi_deleted = FALSE
        => (r.oi_unavailable_until # NoDate <=> r.oi_status = UNAVAILABLE_UNTIL)

(* C15: a delete sets the owning group's status to cancelled if and only   *)
(* if the group has no reservation left that is not deleted; while other   *)
(* items remain the group's status is unchanged.                           *)
C15_GroupCancellation ==
    [][(last'.op = "deleteOrderItem" /\ last'.code = 200)
       => LET g == last'.order_id
              remaining == {r \in items' : /\ r.oi_order_fk_order_id = g
                                           /\ r.oi_deleted = FALSE}
          IN  /\ Cardinality(remaining) = Cardinality(Members(g)) - 1
              /\ IF remaining = {}
                 THEN orders'[g].order_status = ORDER_CANCELLED
                 ELSE orders'[g].order_status = orders[g].order_status]_vars

\* an item deleted from a group that keeps another item and is not
\* cancelled
C15_Witness ==
    /\ last.op = "deleteOrderItem"
    /\ last.code = 200
    /\ Members(last.order_id) # {}
    /\ \E r \in items : r.oi_order_fk_order_id = last.order_id /\ r.oi_deleted
    /\ orders[last.order_id].order_status = ORDER_HOLD

(* C16: a successful add item creates the reservation with the status and  *)
(* the blocking instant the simplified resolver (getStatus) computes from  *)
(* the conflicts on the added inventory item over the group's interval; a  *)
(* confirmed conflict on that item gives unavailable-until with that       *)
(* reservation's return instant.                                           *)
C16_AddItemStatus ==
    [][(last'.op = "createOrderItem" /\ last'.code = 201)
       => /\ [status |-> last'.status,
              unavailableUntil |-> last'.unavailable_until]
                \in getStatus(items, orders[last'.order_id], last'.inventory)
          /\ \E r \in items' \ items :
                /\ r.oi_order_fk_order_id = last'.order_id
                /\ r.oi_inventory_fk_inventory_id = last'.inventory
                /\ r.oi_status = last'.status
                /\ r.oi_unavailable_until = last'.unavailable_until]_vars

(* C17: in every reachable state, under any interleaving of add item       *)
(* calls, there is at most one reservation for each pair of inventory item *)
(* and group.                                                              *)
C17_OnePerPair ==
    \A r1, r2 \in items :
        (/\ r1.oi_order_fk_order_id = r2.oi_order_fk_order_id
         /\ r1.oi_inventory_fk_inventory_id = r2.oi_inventory_fk_inventory_id)
        => r1 = r2

\* what a hold request for group g does when it takes effect: the group is
\* in hold with its flag set, every member has a status the full resolver
\* returns for the group's interval and its flag set, and nothing else
\* changes
HoldTakesEffect(g) ==
    /\ last'.code = 200
    /\ orders' = [orders EXCEPT ![g].order_status = ORDER_HOLD,
                                ![g].order_request_hold = TRUE]
    /\ Cardinality(items') = Cardinality(items)
    /\ \A r \in items \ Members(g) : r \in items'
    /\ \A m \in Members(g) :
          \E res \in calculateOrderItemStatus(items, m, orders[g]) :
          \E w \in items' :
             /\ w = [m EXCEPT !.oi_status = res.status,
                              !.oi_request_hold = TRUE,
                              !.oi_unavailable_until = w.oi_unavailable_until]

\* a hold request that fails and changes nothing
HoldFails ==
    /\ last'.code # 200
    /\ orders' = orders
    /\ items' = items

(* C18 as stated: a hold request on an existing group sets every member    *)
(* that is not deleted to the full resolver's status with its request-hold *)
(* flag set and sets the group to hold with its flag true; on a group that *)
(* does not exist it fails and changes nothing.                            *)
C18_Original ==
    [][last'.op = "requestHold"
       => IF last'.order_id \in DOMAIN orders
          THEN HoldTakesEffect(last'.order_id)
          ELSE HoldFails]_vars

(* C18 amended: the effects hold for an existing group with at least one   *)
(* member that is not deleted; on a group that does not exist, and on a    *)
(* group without such a member, the request fails and changes nothing.     *)
C18_RequestHoldEffects ==
    [][last'.op = "requestHold"
       => IF /\ last'.order_id \in DOMAIN orders
             /\ Members(last'.order_id) # {}
          THEN HoldTakesEffect(last'.order_id)
          ELSE HoldFails]_vars

\* a hold request that took effect on a group of two members: one is now
\* blocked by a confirmed reservation, the other holds a tier-1 request
C18_Witness ==
    /\ last.op = "requestHold"
    /\ last.code = 200
    /\ orders[last.order_id].order_status = ORDER_HOLD
    /\ orders[last.order_id].order_request_hold
    /\ Cardinality(Members(last.order_id)) = 2
    /\ \A m \in Members(last.order_id) : m.oi_request_hold
    /\ \E m \in Members(last.order_id) : m.oi_status = UNAVAILABLE_UNTIL
    /\ \E m \in Members(last.order_id) : m.oi_status = ON_HOLD_REQUEST

(* C19: once a reservation that is not deleted is confirmed, no operation  *)
(* changes its status to anything else; it leaves confirmed only by being  *)
(* deleted.                                                                *)
C19_ConfirmedTerminal ==
    [][\A r \in items :
          (r.oi_status = CONFIRMED /\ r.oi_deleted = FALSE)
          => \E w \in items' :
                /\ w.oi_id = r.oi_id
                /\ w.oi_status = CONFIRMED \/ w.oi_deleted]_vars

\* the answer in `last` is one the full resolver gives on the same store
FullAgrees ==
    [status |-> last.status, unavailable_until |-> last.unavailable_until]
        \in calculateOrderItemStatus(
                items, [oi_inventory_fk_inventory_id |-> last.inventory],
                orders[last.order_id])

\* the answer in `last` is one the simplified resolver gives on the same
\* store
SimplifiedAgrees ==
    [status |-> last.status, unavailableUntil |-> last.unavailable_until]
        \in getStatus(items, orders[last.order_id], last.inventory)

(* C20 as stated: for the same item, group and interval the simplified and *)
(* the full resolver return the same status and blocking instant whenever  *)
(* the conflict set is empty and whenever it contains a confirmed          *)
(* reservation.                                                            *)
C20_Original ==
    (/\ last.op \in {"getStatus", "calculateOrderItemStatus"}
     /\ \/ ResolvedConflicts = {}
        \/ \E c \in ResolvedConflicts : c.oi_status = CONFIRMED)
    => /\ last.op = "getStatus" => FullAgrees
       /\ last.op = "calculateOrderItemStatus" => SimplifiedAgrees

(* C20 amended: the two resolvers return the same status and blocking      *)
(* instant whenever the conflict set contains a confirmed reservation; on  *)
(* an empty conflict set the simplified one returns available and the full *)
(* one a tier-1 hold request, both without a blocking instant.             *)
C20_VariantsAgree ==
    /\ (/\ last.op \in {"getStatus", "calculateOrderItemStatus"}
        /\ \E c \in ResolvedConflicts : c.oi_status = CONFIRMED)
       => /\ last.op = "getStatus" => FullAgrees
          /\ last.op = "calculateOrderItemStatus" => SimplifiedAgrees
    /\ (/\ last.op \in {"getStatus", "calculateOrderItemStatus"}
        /\ ResolvedConflicts = {})
       => /\ last.op = "getStatus"
             => last.status = AVAILABLE /\ last.unavailable_until = NoDate
          /\ last.op = "calculateOrderItemStatus"
             => last.status = ON_HOLD_REQUEST /\ last.unavailable_until = NoDate

\* the simplified resolver answering a confirmed conflict that has hold
\* conflicts beside it
C20_Witness ==
    /\ last.op = "getStatus"
    /\ last.status = UNAVAILABLE_UNTIL
    /\ \E c \in ResolvedConflicts :
          /\ c.oi_status = CONFIRMED
          /\ c.oi_pickup_at < c.oi_return_at
          /\ last.unavailable_until = DateAt(c.oi_return_at)
    /\ \E c \in ResolvedConflicts : c.oi_status \in Tier1

(* C21: when several confirmed reservations of other groups conflict with  *)
(* the queried interval on the same item, the blocking instant a resolver  *)
(* returns is the latest return instant among those confirmed conflicts.   *)
C21_LatestReturn ==
    (/\ last.op \in {"getStatus", "calculateOrderItemStatus"}
     /\ \E c \in ResolvedConflicts : c.oi_status = CONFIRMED)
    => /\ last.status = UNAVAILABLE_UNTIL
       /\ \A c \in ResolvedConflicts :
             c.oi_status = CONFIRMED
             => \E t \in last.unavailable_until : c.oi_return_at <= t

\* two reservations of different groups, not deleted, on the same item,
\* over intersecting intervals
Rivals(r1, r2) ==
    /\ r1.oi_order_fk_order_id # r2.oi_order_fk_order_id
    /\ r1.oi_inventory_fk_inventory_id = r2.oi_inventory_fk_inventory_id
    /\ r1.oi_deleted = FALSE /\ r2.oi_deleted = FALSE
    /\ Intersects(r1.oi_pickup_at, r1.oi_return_at,
                  r2.oi_pickup_at, r2.oi_return_at)

(* C22: validation and writing of a confirm are separate steps: the write  *)
(* step of a request that passed validation confirms the group and its     *)
(* members whatever other requests have written since, so interleaved      *)
(* confirms of two groups on the same item and overlapping intervals can   *)
(* leave both groups' reservations confirmed.                              *)
C22_ConfirmRace ==
    [][\A q \in inflight :
          (q.stage = "write" /\ q \notin inflight')
          => /\ orders'[q.order.order_id].order_status = ORDER_CONFIRM
             /\ \A m \in Members(q.order.order_id) :
                   [m EXCEPT !.oi_status = CONFIRMED] \in items']_vars

\* both groups' reservations confirmed while both confirms are in flight,
\* each reservation flagged as a hold a completed confirm of the other
\* group would have swept
C22_Witness ==
    /\ \E q1, q2 \in inflight :
          /\ q1.order.order_id # q2.order.order_id
          /\ q1.stage = "sweep" /\ q2.stage = "sweep"
    /\ \E r1, r2 \in items :
          /\ Rivals(r1, r2)
          /\ r1.oi_status = CONFIRMED /\ r2.oi_status = CONFIRMED
          /\ r1.oi_request_hold /\ r2.oi_request_hold

\* the conflicts of a stored reservation over its own interval
ConflictsOfItem(r) ==
    ConflictsOf(r.oi_inventory_fk_inventory_id, r.oi_order_fk_order_id,
                r.oi_pickup_at, r.oi_return_at)

(* C23: in every state reached from the empty store, the hold tiers among  *)
(* the conflicts of any reservation are contiguous from tier-1 upward: a   *)
(* tier-2 conflict comes with a tier-1 conflict and a tier-3 conflict with *)
(* a tier-2 conflict.                                                      *)
C23_TierContiguity ==
    \A r \in items :
        r.oi_deleted = FALSE =>
            LET held == {c.oi_status : c \in ConflictsOfItem(r)}
            IN  /\ (held \cap Tier2 # {} => held \cap Tier1 # {})
                /\ (held \cap Tier3 # {} => held \cap Tier2 # {})

(* C24: deleting a reservation whose status is unavailable or              *)
(* unavailable-until changes no other reservation; only the deleted        *)
(* reservation's soft-delete flag changes, and its group's status when it  *)
(* was the group's last item.                                              *)
C24_BlockedDeletion ==
    [][(/\ last'.op = "deleteOrderItem"
        /\ last'.code = 200
        /\ last'.status \in {UNAVAILABLE, UNAVAILABLE_UNTIL})
       => /\ \E d \in items :
                /\ Removed(d)
                /\ items' = (items \ {d}) \cup {[d EXCEPT !.oi_deleted = TRUE]}
          /\ \A g \in DOMAIN orders :
                \/ orders'[g] = orders[g]
                \/ /\ g = last'.order_id
                   /\ \A r \in items' :
                         r.oi_order_fk_order_id = g => r.oi_deleted
                   /\ orders'[g] =
                         [orders[g] EXCEPT !.order_status = ORDER_CANCELLED]]_vars

\* a blocked reservation deleted beside conflicting tier-2 and tier-3
\* holds, which stay where they were
C24_Witness ==
    /\ last.op = "deleteOrderItem"
    /\ last.code = 200
    /\ last.status \in {UNAVAILABLE, UNAVAILABLE_UNTIL}
    /\ last.action = "no_changes_needed"
    /\ \E d \in items :
          /\ d.oi_deleted
          /\ d.oi_order_fk_order_id = last.order_id
          /\ d.oi_inventory_fk_inventory_id = last.inventory
          /\ \E c2, c3 \in ConflictsOfItem(d) :
                c2.oi_status \in Tier2 /\ c3.oi_status \in Tier3

\* the statuses among the conflicts of the resolver call `last` answers
ResolvedStatuses == {c.oi_status : c \in ResolvedConflicts}

(* C25, as stated: with no confirmed conflict the simplified resolver      *)
(* answers unavailable exactly when all three hold tiers (request or       *)
(* granted) are present among the conflicts and available otherwise; with  *)
(* a confirmed conflict it answers unavailable-until.                      *)
C25_Original ==
    last.op = "getStatus" =>
        IF CONFIRMED \in ResolvedStatuses
        THEN last.status = UNAVAILABLE_UNTIL
        ELSE last.status =
                IF /\ ResolvedStatuses \cap Tier1 # {}
                   /\ ResolvedStatuses \cap Tier2 # {}
                   /\ ResolvedStatuses \cap Tier3 # {}
                THEN UNAVAILABLE
                ELSE AVAILABLE

(* C25: with no confirmed conflict the simplified resolver answers         *)
(* unavailable exactly when granted holds of all three tiers (on-hold,     *)
(* 2nd-hold and 3rd-hold) are present among the conflicts, and available   *)
(* in every other case, hold requests included; with a confirmed conflict  *)
(* it answers unavailable-until.                                           *)
C25_SimplifiedOutput ==
    last.op = "getStatus" =>
        IF CONFIRMED \in ResolvedStatuses
        THEN last.status = UNAVAILABLE_UNTIL
        ELSE /\ last.unavailable_until = NoDate
             /\ last.status =
                   IF {ON_HOLD, SECOND_HOLD, THIRD_HOLD} \subseteq ResolvedStatuses
                   THEN UNAVAILABLE
                   ELSE AVAILABLE

\* the simplified resolver answered unavailable: granted holds of the three
\* tiers are among the conflicts
C25_Witness ==
    /\ last.op = "getStatus"
    /\ last.status = UNAVAILABLE
    /\ {ON_HOLD, SECOND_HOLD, THIRD_HOLD} \subseteq ResolvedStatuses

\* the statuses a tier-1 deletion leaves alone besides the hold tiers
SettledStatuses == {AVAILABLE, CONFIRMED, UNAVAILABLE, UNAVAILABLE_UNTIL}

(* C26: when a tier-1 reservation is deleted, every conflicting            *)
(* reservation whose status is neither a hold tier nor one of available,   *)
(* confirmed, unavailable, unavailable-until is set to available, and the  *)
(* conflicts in those four statuses are left unchanged.                    *)
C26_StaleCleanup ==
    [][(/\ last'.op = "deleteOrderItem"
        /\ last'.code = 200
        /\ last'.status \in Tier1)
       => \A d \in items :
             Removed(d) =>
                \A c \in ConflictsOfItem(d) :
                    /\ c.oi_status \in SettledStatuses => c \in items'
                    /\ c.oi_status \notin
                           SettledStatuses \cup Tier1 \cup Tier2 \cup Tier3
                       => [c EXCEPT !.oi_status = AVAILABLE] \in items']_vars

\* a tier-1 deletion that wrote one conflict, after which the conflicts of
\* the deleted reservation are an available and a confirmed one: the write
\* was the reset of a stale status, the confirmed conflict stayed
C26_Witness ==
    /\ last.op = "deleteOrderItem"
    /\ last.code = 200
    /\ last.status \in Tier1
    /\ last.count = 1
    /\ \E d \in items :
          /\ d.oi_deleted
          /\ d.oi_order_fk_order_id = last.order_id
          /\ d.oi_inventory_fk_inventory_id = last.inventory
          /\ {c.oi_status : c \in ConflictsOfItem(d)} = {AVAILABLE, CONFIRMED}

\* what a write of the escalation pass after a deletion of status
\* deletedStatus makes of conflict c
Escalated(c, deletedStatus) ==
    IF deletedStatus = CONFIRMED
    THEN [c EXCEPT !.oi_status = AVAILABLE, !.oi_unavailable_until = NoDate]
    ELSE [c EXCEPT !.oi_status =
                      IF c.oi_status \in Tier2 \cup Tier3
                      THEN OneTierDown(c.oi_status)
                      ELSE AVAILABLE]

(* C27: when a write fails part-way through an escalation pass (promotion  *)
(* or confirmed-release), the delete answers with an error and the writes  *)
(* the pass made before the failure stay in the store: the soft delete and *)
(* each of those writes are there, nothing else changed.                   *)
C27_NoRollback ==
    [][(last'.op = "deleteOrderItem" /\ last'.code = 500)
       => \E d \in items :
             /\ Removed(d)
             /\ [d EXCEPT !.oi_deleted = TRUE] \in items'
             /\ LET made == {c \in items \ {d} : c \notin items'}
                IN  /\ Cardinality(made) = last'.count
                    /\ made \subseteq ConflictsOfItem(d)
                    /\ \A c \in made : Escalated(c, last'.status) \in items'
                    /\ orders' = orders]_vars

\* a promotion that failed after its first write: the promoted conflict is
\* a tier-1 request beside a conflict still in tier 3
C27_Witness ==
    /\ last.op = "deleteOrderItem"
    /\ last.code = 500
    /\ last.action = "promote_holds"
    /\ last.count = 1
    /\ \E d \in items :
          /\ d.oi_deleted
          /\ d.oi_order_fk_order_id = last.order_id
          /\ d.oi_inventory_fk_inventory_id = last.inventory
          /\ {c.oi_status : c \in ConflictsOfItem(d)} =
                {ON_HOLD_REQUEST, THIRD_HOLD}

(* C28: when every operation runs to completion before the next starts, no *)
(* reachable state holds two confirmed reservations, not deleted, of       *)
(* different groups on the same inventory item over overlapping intervals. *)
C28_NoDoubleBooking ==
    \A r1, r2 \in items :
        Rivals(r1, r2) => ~(r1.oi_status = CONFIRMED /\ r2.oi_status = CONFIRMED)

\* the hold tier of a status, 0 for a status outside the ladder
TierOf(status) ==
    IF status \in Tier1 THEN 1
    ELSE IF status \in Tier2 THEN 2
    ELSE IF status \in Tier3 THEN 3
    ELSE 0

(* C29: in every state reached from the empty store by sequential          *)
(* operations, no two reservations of different groups, not deleted, on    *)
(* the same inventory item over overlapping intervals are in the same hold *)
(* tier (request or granted).                                              *)
C29_TierUniqueness ==
    \A r1, r2 \in items :
        (Rivals(r1, r2) /\ TierOf(r1.oi_status) # 0)
        => TierOf(r1.oi_status) # TierOf(r2.oi_status)

\* a hold request for g answered 200 is followed at once by another hold
\* request for g
HoldRepeated(g) ==
    /\ last.op = "requestHold" /\ last.order_id = g /\ last.code = 200
    /\ last'.op = "requestHold" /\ last'.order_id = g

ConfirmedReturns(m) ==
    {c.oi_return_at : c \in {k \in ConflictsOf(
                                    m.oi_inventory_fk_inventory_id,
                                    m.oi_order_fk_order_id,
                                    orders[m.oi_order_fk_order_id].order_pickup_at,
                                    orders[m.oi_order_fk_order_id].order_return_at) :
                                k.oi_status = CONFIRMED}}

C31_ConfirmedGroupConsistency ==
    \A g \in DOMAIN orders :
        orders[g].order_status = ORDER_CONFIRM
        => \A m \in Members(g) : m.oi_status = CONFIRMED
====
